---- MODULE Spec2Model ----
(***************************************************************************)
(* TurboNano: the edit pane (EditWindow) over its line buffer (EditFile).  *)
(*                                                                         *)
(* A string is a sequence of one-character strings; the characters "CR"    *)
(* and "LF" stand for carriage return and line feed.  Rows and columns are *)
(* 0-based as in the source; fileData is a JavaScript array, so a read     *)
(* outside it yields undefined, an assignment past its end leaves holes,   *)
(* and an assignment at a negative index creates a property (props) that   *)
(* is not an element and does not count in its length.                     *)
(***************************************************************************)
EXTENDS Integers, Sequences, FiniteSets, TLC

VARIABLES fileData,        \* EditFile.fileData: the array of lines
          props,           \* properties of the fileData array at negative indices
          cursorX,         \* EditWindow.cursorX
          cursorY,         \* EditWindow.cursorY
          scrollOffsetX,   \* EditWindow.scrollOffsetX
          scrollOffsetY,   \* EditWindow.scrollOffsetY
          insert,          \* WindowService.insert
          elementHeight,   \* height of the pane's blessed element
          lastKey,         \* key.full of the last key event pressed ("" before any)
          outcome,         \* how the last event ended: "ok", "caught", "escaped"
          written,         \* arguments of the last direct EditFile.writeText call
          windows,         \* WindowService.windows: the panes, each with its element
          currentWindow,   \* WindowService.currentWindow: a pane's id, Null for null
          screenWidth,     \* screen.width
          screenHeight,    \* screen.height
          lastOp,          \* the last WindowService operation and its argument
          patterns,        \* NanorcService: the compiled rules cached for the file
          lineArg,         \* the line of the last NanorcService.style call
          matches,         \* style: the candidate matches, once sorted
          nonOverlappingMatches, \* style: the accepted matches, in acceptance order
          styledLine,      \* what the last style call returned
          status,          \* "idle" before any call, then "styled" or "hung"
          nanorcDir,       \* the .nanorc files of the configuration directory
          initialized,     \* NanorcService.initialized
          loadedRules,     \* NanorcService.loadedRules
          cachedPatterns,  \* NanorcService.cachedPatterns, by file name
          styledFile,      \* the file name of the last style call
          resolution,      \* how its _loadRulesForFile ended: "returned", "overflow"
          pending,         \* the paste handlers waiting for clipboardy.read()
          sequential,      \* the pane had each key been handled to its end on arrival
          arrived,         \* the number of key events that have arrived
          awaiting,        \* the submitted AI prompts waiting for the response
          modalActive,     \* EventController.modalActive
          modal,           \* the file selection modal: "none", "shown", "reading"
          noFile,          \* the panes whose currentFile is null
          redrawn,         \* the panes the last layout's redraw loop reached
          forwarded,       \* the pane the last key event was forwarded to
          events,          \* EventController.events: the handlers added, in order
          paneEvents,      \* EditWindow.events of each pane, by the pane's id
          buffers,         \* each pane's file and cursor, by the pane's id
          called,          \* the handlers the last key event called, in order
          terminal         \* where updateCursor last put the terminal cursor

\* the state of the one edit pane and its buffer
editorVars == <<fileData, props, cursorX, cursorY, scrollOffsetX,
                scrollOffsetY, insert, elementHeight, lastKey, outcome>>

\* the state of the window service
serviceVars == <<windows, currentWindow, screenWidth, screenHeight, lastOp>>

\* the state of the highlight service
styleVars == <<patterns, lineArg, matches, nonOverlappingMatches, styledLine,
               status, nanorcDir, initialized, loadedRules, cachedPatterns,
               styledFile, resolution>>

\* the handlers in flight, and the sequential pane they are compared with
asyncVars == <<pending, sequential, arrived>>

\* the state of the key event controller, and of the panes as it sees them
controllerVars == <<modalActive, modal, noFile, redrawn, forwarded>>

\* the handlers bound to keys, and the panes they work on
eventVars == <<events, paneEvents, buffers, called>>

\* the state of the application around the edit pane and the services
appVars == <<awaiting, controllerVars, eventVars, terminal>>

\* the variables the edit pane's key events leave alone
others == <<written, serviceVars, styleVars, asyncVars, appVars>>

vars == <<editorVars, written, serviceVars, styleVars, asyncVars, appVars>>

----------------------------------------------------------------------------
(* Bounds of the model *)

MaxLines == 3       \* fileData holds at most this many lines and properties
MaxChars == 2       \* ... and at most this many characters in all
MaxWindows == 2     \* the window service holds at most this many panes
MaxPanes == 3       \* ... and the application at most this many
MaxNoFile == 1      \* at most this many panes are without a file
MaxStack == 3       \* the call stack holds at most this many frames of a method

IndentSize == 2     \* the configured editor.indentSize (4 when not configured)

----------------------------------------------------------------------------
(* JavaScript values and string / array primitives *)

Undefined == <<"undefined">>

\* no call has been made yet
NoCall == [text |-> << >>, x |-> -1, y |-> -1, insert |-> FALSE]

\* null; a width or height that is null (v || d takes d for null and for 0)
Null == 0

\* no window service is running
NoService ==
    /\ windows = << >>
    /\ currentWindow = Null
    /\ screenWidth = 0
    /\ screenHeight = 0
    /\ lastOp = [op |-> "", arg |-> Null]

\* no rules are loaded, and no file's rules are looked for
NoLoad ==
    /\ nanorcDir = << >>
    /\ initialized = FALSE
    /\ loadedRules = << >>
    /\ cachedPatterns = << >>
    /\ styledFile = << >>
    /\ resolution = "idle"

\* no highlight service is running
NoStyle ==
    /\ NoLoad
    /\ patterns = << >>
    /\ lineArg = << >>
    /\ matches = << >>
    /\ nonOverlappingMatches = << >>
    /\ styledLine = << >>
    /\ status = "idle"

\* no handler is suspended, and no sequential pane is kept
NoAsync ==
    /\ pending = << >>
    /\ sequential = [w |-> [fileData |-> << << >> >>, props |-> << >>,
                            cursorX |-> 0, cursorY |-> 0,
                            scrollOffsetX |-> 0, scrollOffsetY |-> 0],
                     insert |-> TRUE]
    /\ arrived = 0

\* the terminal cursor has not been moved
NotMoved == [moved |-> FALSE, x |-> 0, y |-> 0, style |-> ""]

\* no handler was called by a key event
NoneCalled == [controller |-> << >>, pane |-> << >>]

\* no handler is added, and no pane's handlers are followed
NoEvents ==
    /\ events = << >>
    /\ paneEvents = << >>
    /\ buffers = << >>
    /\ called = NoneCalled

\* no prompt is waiting, no controller is running, no cursor has been put
NoApp ==
    /\ awaiting = << >>
    /\ modalActive = FALSE
    /\ modal = "none"
    /\ noFile = {}
    /\ redrawn = {}
    /\ forwarded = Null
    /\ terminal = NotMoved
    /\ NoEvents

Range(f) == {f[i] : i \in DOMAIN f}
TheOne(S) == CHOOSE x \in S : TRUE
Min(a, b) == IF a < b THEN a ELSE b
Max(a, b) == IF a > b THEN a ELSE b

\* String.prototype.slice(a, b)
Slice(s, a, b) ==
    LET n  == Len(s)
        lo == IF a < 0 THEN Max(n + a, 0) ELSE Min(a, n)
        hi == IF b < 0 THEN Max(n + b, 0) ELSE Min(b, n)
    IN  IF lo >= hi THEN << >> ELSE SubSeq(s, lo + 1, hi)

\* String.prototype.slice(a)
SliceFrom(s, a) == Slice(s, a, Len(s))

\* s.replace(/[\r\n]/g, '')
StripNewlines(s) == SelectSeq(s, LAMBDA c : c \notin {"CR", "LF"})

\* ' '.repeat(n)
Spaces(n) == [i \in 1..n |-> " "]

\* v || ''
OrEmpty(v) == IF v = Undefined THEN << >> ELSE v

\* fileData[i]
At(w, i) ==
    IF i >= 0 /\ i < Len(w.fileData) THEN w.fileData[i + 1]
    ELSE IF i \in DOMAIN w.props THEN w.props[i]
    ELSE Undefined

\* fileData[i] = v
SetAt(w, i, v) ==
    IF i < 0 THEN [w EXCEPT !.props = (i :> v) @@ @]
    ELSE IF i < Len(w.fileData) THEN [w EXCEPT !.fileData[i + 1] = v]
    ELSE [w EXCEPT !.fileData =
              @ \o [k \in 1..(i - Len(@)) |-> Undefined] \o <<v>>]

\* the start index Array.prototype.splice uses for the argument s
SpliceStart(n, s) == IF s < 0 THEN Max(n + s, 0) ELSE Min(s, n)

\* fileData.splice(s, 1)
SpliceRemove(w, s) ==
    LET n == Len(w.fileData)
        k == SpliceStart(n, s)
    IN  IF k < n
        THEN [w EXCEPT !.fileData = SubSeq(@, 1, k) \o SubSeq(@, k + 2, n)]
        ELSE w

\* fileData.splice(s, 0, v)
SpliceInsert(w, s, v) ==
    LET n == Len(w.fileData)
        k == SpliceStart(n, s)
    IN  [w EXCEPT !.fileData = SubSeq(@, 1, k) \o <<v>> \o SubSeq(@, k + 1, n)]

\* the result of a call: the state it leaves and whether it threw
Ok(w) == [w |-> w, threw |-> FALSE]
Throw(w) == [w |-> w, threw |-> TRUE]

----------------------------------------------------------------------------
(* EditFile *)

_ensureLineExists(w, y) ==
    IF Len(w.fileData) <= y
    THEN [w EXCEPT !.fileData = @ \o [k \in 1..(y + 1 - Len(@)) |-> << >>]]
    ELSE w

\* reading fileData[y].length throws a TypeError when fileData[y] is undefined
_ensureCharacterExists(w, x, y) ==
    LET w1 == _ensureLineExists(w, y)
        l  == At(w1, y)
    IN  IF l = Undefined THEN Throw(w1)
        ELSE Ok(SetAt(w1, y, l \o Spaces(Max(0, x - Len(l)))))

\* writeText, but overwriting drops the rest of the line after the text
writeTextTruncating(w, text, x, y, ins) ==
    LET r == _ensureCharacterExists(w, x, y)
    IN  IF r.threw THEN r
        ELSE LET line == At(r.w, y)
             IN  Ok(SetAt(r.w, y,
                     IF ins
                     THEN Slice(line, 0, x) \o text \o SliceFrom(line, x)
                     ELSE Slice(line, 0, x) \o text))

writeText(w, text, x, y, ins) ==
    LET r == _ensureCharacterExists(w, x, y)
    IN  IF r.threw THEN r
        ELSE LET line == At(r.w, y)
             IN  Ok(SetAt(r.w, y,
                     IF ins
                     THEN Slice(line, 0, x) \o text \o SliceFrom(line, x)
                     ELSE Slice(line, 0, x) \o text
                              \o SliceFrom(line, x + Len(text))))

----------------------------------------------------------------------------
(* EditWindow *)

_getContentHeight(h) == h - 2

_adjustScrollForCursor(w, h) ==
    LET editorHeight  == _getContentHeight(h)
        visibleBottom == w.scrollOffsetY + editorHeight - 1
        visibleTop    == w.scrollOffsetY
    IN  IF w.cursorY > visibleBottom
        THEN [w EXCEPT !.scrollOffsetY =
                  Min(w.cursorY - editorHeight + 1,
                      Max(0, Len(w.fileData) - editorHeight))]
        ELSE IF w.cursorY < visibleTop
        THEN [w EXCEPT !.scrollOffsetY = Max(0, w.cursorY)]
        ELSE w

_getAbsolutePosition(w) ==
    [x |-> w.cursorX + w.scrollOffsetX, y |-> w.cursorY + w.scrollOffsetY]

\* _moveCursor, but a vertical move pads the target line up to the column
\* instead of clamping the column to the line
_moveCursorPadding(w, dx, dy, h) ==
    LET newY == w.cursorY + dy
        r    == _ensureCharacterExists(w, w.cursorX, newY)
    IN  IF dy # 0 /\ newY >= 0 /\ newY < Len(w.fileData) /\ ~r.threw
        THEN Ok(_adjustScrollForCursor([r.w EXCEPT !.cursorY = newY], h))
        ELSE Ok(w)

\* _moveCursor, but right at the end of a line wraps to the start of the
\* next line
_moveCursorWrapping(w, dx, dy, h) ==
    LET newY       == w.cursorY + dy
        targetLine == OrEmpty(At(w, newY))
        newX       == IF dy # 0 THEN Min(w.cursorX, Len(targetLine))
                               ELSE w.cursorX + dx
    IN  IF /\ newY >= 0 /\ newY < Len(w.fileData)
           /\ newX >= 0 /\ newX <= Len(targetLine)
        THEN Ok(_adjustScrollForCursor(
                    [w EXCEPT !.cursorX = newX, !.cursorY = newY], h))
        ELSE IF dx = 1 /\ newY >= 0 /\ newY + 1 < Len(w.fileData)
        THEN Ok(_adjustScrollForCursor(
                    [w EXCEPT !.cursorX = 0, !.cursorY = newY + 1], h))
        ELSE Ok(w)

_moveCursor(w, dx, dy, h) ==
    LET newY       == w.cursorY + dy
        targetLine == OrEmpty(At(w, newY))
        newX       == IF dy # 0 THEN Min(w.cursorX, Len(targetLine))
                               ELSE w.cursorX + dx
    IN  IF /\ newY >= 0 /\ newY < Len(w.fileData)
           /\ newX >= 0 /\ newX <= Len(targetLine)
        THEN Ok(_adjustScrollForCursor(
                    [w EXCEPT !.cursorX = newX, !.cursorY = newY], h))
        ELSE Ok(w)

\* IndentationService.getIndentation with editor.useTabs false
getIndentation(column) ==
    LET nextStop == ((column + 1 + IndentSize - 1) \div IndentSize) * IndentSize
    IN  Spaces(nextStop - column)

_handleTab(w, ins) ==
    LET pos         == _getAbsolutePosition(w)
        indentation == getIndentation(pos.x)
        r           == writeText(w, indentation, pos.x, pos.y, ins)
    IN  IF r.threw THEN r
        ELSE Ok([r.w EXCEPT !.cursorX = @ + Len(indentation)])

\* EditFile has no deleteChar method: calling it throws a TypeError
deleteChar(w, x, y) == Throw(w)

_handleBackspace(w) ==
    LET pos == _getAbsolutePosition(w)
    IN  IF pos.x > 0
        THEN LET r == deleteChar(w, pos.x - 1, pos.y)
             IN  IF r.threw THEN r
                 ELSE Ok([r.w EXCEPT !.cursorX = @ - 1])
        ELSE IF pos.y > 0
        THEN LET currentLine  == At(w, pos.y)
                 previousLine == At(w, pos.y - 1)
                 w1 == SpliceRemove(w, pos.y)
             IN  IF previousLine = Undefined THEN Throw(w1)
                 ELSE LET w2 == [w1 EXCEPT !.cursorX = Len(previousLine),
                                           !.cursorY = @ - 1]
                      IN  IF currentLine = Undefined THEN Throw(w2)
                          ELSE IF Len(currentLine) > 0
                          THEN Ok(SetAt(w2, pos.y - 1,
                                        previousLine \o currentLine))
                          ELSE Ok(w2)
        ELSE Ok(w)

_handleDelete(w) ==
    LET pos  == _getAbsolutePosition(w)
        line == At(w, pos.y)
    IN  IF line = Undefined THEN Throw(w)
        ELSE IF pos.x < Len(line) THEN deleteChar(w, pos.x, pos.y)
        ELSE IF pos.y < Len(w.fileData) - 1
        THEN LET nextLine == At(w, pos.y + 1)
                 w1       == SpliceRemove(w, pos.y + 1)
             IN  IF nextLine = Undefined THEN Throw(w1)
                 ELSE IF Len(nextLine) > 0
                 THEN Ok(SetAt(w1, pos.y, line \o nextLine))
                 ELSE Ok(w1)
        ELSE Ok(w)

_handleEnter(w, h) ==
    LET currentLine  == OrEmpty(At(w, w.cursorY))
        beforeCursor == StripNewlines(Slice(currentLine, 0, w.cursorX))
        afterCursor  == StripNewlines(SliceFrom(currentLine, w.cursorX))
        w1 == SetAt(w, w.cursorY, beforeCursor)
        w2 == SpliceInsert(w1, w.cursorY + 1, afterCursor)
        w3 == [w2 EXCEPT !.cursorY = @ + 1, !.cursorX = 0]
    IN  Ok(_adjustScrollForCursor(w3, h))

\* Math.max(1, Math.floor(editorHeight * 0.9)), for editorHeight >= 0
moveAmount(h) == Max(1, (9 * _getContentHeight(h)) \div 10)

_handlePageUp(w, h) ==
    LET editorHeight == _getContentHeight(h)
        newY         == Max(0, w.cursorY - moveAmount(h))
        targetLine   == OrEmpty(At(w, newY))
    IN  Ok([w EXCEPT !.cursorX = Min(@, Len(targetLine)),
                     !.cursorY = newY,
                     !.scrollOffsetY = Max(0, newY - (editorHeight \div 2))])

_handlePageDown(w, h) ==
    LET editorHeight == _getContentHeight(h)
        lastLine     == Len(w.fileData) - 1
        newY         == Min(lastLine, w.cursorY + moveAmount(h))
        targetLine   == OrEmpty(At(w, newY))
        maxScroll    == Max(0, Len(w.fileData) - editorHeight)
    IN  Ok([w EXCEPT !.cursorX = Min(@, Len(targetLine)),
                     !.cursorY = newY,
                     !.scrollOffsetY =
                         Min(maxScroll, newY - (editorHeight \div 2))])

_handleHome(w) == Ok([w EXCEPT !.cursorX = 0])

_handleEnd(w) == Ok([w EXCEPT !.cursorX = Len(OrEmpty(At(w, w.cursorY)))])

\* clipboardText.split(/\r?\n/): cur is the piece being read, acc the pieces
\* before it; a line feed ends the piece, less one carriage return before it
RECURSIVE SplitLines(_, _, _)
SplitLines(text, cur, acc) ==
    IF text = << >> THEN Append(acc, cur)
    ELSE IF Head(text) = "LF"
    THEN SplitLines(Tail(text), << >>,
                    Append(acc, IF cur # << >> /\ cur[Len(cur)] = "CR"
                                THEN SubSeq(cur, 1, Len(cur) - 1)
                                ELSE cur))
    ELSE SplitLines(Tail(text), Append(cur, Head(text)), acc)

\* the loop of _handlePaste that inserts remainingLines[i ..] below row y
RECURSIVE InsertRemaining(_, _, _, _, _)
InsertRemaining(w, remainingLines, i, y, afterCursor) ==
    IF i >= Len(remainingLines) THEN w
    ELSE InsertRemaining(
             SpliceInsert(w, y + i + 1,
                          remainingLines[i + 1] \o
                              (IF i = Len(remainingLines) - 1
                               THEN afterCursor ELSE << >>)),
             remainingLines, i + 1, y, afterCursor)

\* the body of the try block of _handlePaste, clipboardText being what
\* clipboardy.read() returned
_handlePaste(w, clipboardText, ins, h) ==
    IF Len(clipboardText) = 0 THEN Ok(w)
    ELSE
    LET lines == SplitLines(clipboardText, << >>, << >>)
        pos   == _getAbsolutePosition(w)
    IN  IF Len(lines) = 1
        THEN LET r == writeText(w, clipboardText, pos.x, pos.y, ins)
             IN  IF r.threw THEN r
                 ELSE Ok(_adjustScrollForCursor(
                          [r.w EXCEPT !.cursorX = @ + Len(clipboardText)], h))
        ELSE LET firstLine      == lines[1]
                 remainingLines == Tail(lines)
                 currentLine    == OrEmpty(At(w, pos.y))
                 beforeCursor   == Slice(currentLine, 0, pos.x)
                 afterCursor    == SliceFrom(currentLine, pos.x)
                 w1 == SetAt(w, pos.y, beforeCursor \o firstLine)
                 w2 == InsertRemaining(w1, remainingLines, 0, pos.y,
                                       afterCursor)
                 w3 == [w2 EXCEPT
                           !.cursorY = @ + Len(remainingLines),
                           !.cursorX =
                               Len(remainingLines[Len(remainingLines)])]
             IN  Ok(_adjustScrollForCursor(w3, h))

\* the bindings registered by _registerDefaultKeyEvents, and the insert
\* toggle WindowService adds to its first pane
Bindings == {"backspace", "up", "down", "left", "right", "tab", "delete",
             "enter", "pageup", "pagedown", "home", "end", "C-v", "insert"}

\* the callback bound to a key; clip is the clipboard's content
callback(full, w, clip, ins, h) ==
    CASE full = "backspace" -> _handleBackspace(w)
      [] full = "up"        -> _moveCursor(w, 0, -1, h)
      [] full = "down"      -> _moveCursor(w, 0, 1, h)
      [] full = "left"      -> _moveCursor(w, -1, 0, h)
      [] full = "right"     -> _moveCursor(w, 1, 0, h)
      [] full = "tab"       -> _handleTab(w, ins)
      [] full = "delete"    -> _handleDelete(w)
      [] full = "enter"     -> _handleEnter(w, h)
      [] full = "pageup"    -> _handlePageUp(w, h)
      [] full = "pagedown"  -> _handlePageDown(w, h)
      [] full = "home"      -> _handleHome(w)
      [] full = "end"       -> _handleEnd(w)
      [] full = "C-v"       -> _handlePaste(w, clip, ins, h)
      [] full = "insert"    -> Ok(w)

\* key && key.full: the key event is an object and has a name.  A key is a
\* record of full and sequence; one without a name lacks the field or has
\* it empty, and undefined is a record without either
IsKey(key) == "full" \in DOMAIN key /\ key.full # ""

\* EditWindow.press after its first line: the handlers bound to the key's
\* name are called, and a key without any is taken for character input
dispatch(w, key, clip, ins, h) ==
    IF IsKey(key) /\ key.full \in Bindings
    THEN LET r == callback(key.full, w, clip, ins, h)
         IN  [w |-> r.w,
              insert |-> IF key.full = "insert" THEN ~ins ELSE ins,
              outcome |-> IF r.threw THEN "caught" ELSE "ok"]
    ELSE IF key.sequence # << >>
    THEN LET r == writeText(w, key.sequence,
                            w.cursorX + w.scrollOffsetX,
                            w.cursorY + w.scrollOffsetY, ins)
         IN  IF r.threw
             THEN [w |-> r.w, insert |-> ins, outcome |-> "escaped"]
             ELSE [w |-> [r.w EXCEPT !.cursorX = @ + 1],
                   insert |-> ins, outcome |-> "ok"]
    ELSE [w |-> w, insert |-> ins, outcome |-> "ok"]

\* press, but without its first line: undefined has no full to read
pressUnguarded(w, key, clip, ins, h) ==
    IF "sequence" \notin DOMAIN key
    THEN [w |-> w, insert |-> ins, outcome |-> "escaped"]
    ELSE dispatch(w, key, clip, ins, h)

\* EditWindow.press: the state, the insert mode and the outcome it leaves.
\* An exception of a bound callback is caught and logged (by press, or by
\* _handlePaste itself); one of the literal write escapes press.
press(w, key, clip, ins, h) ==
    IF ~IsKey(key) THEN [w |-> w, insert |-> ins, outcome |-> "ok"]
    ELSE dispatch(w, key, clip, ins, h)

\* EditWindow.press in a pane whose currentFile is null: every handler but
\* the insert toggle reads the file or ends with redraw, which reads it
pressNoFile(w, key, clip, ins, h) ==
    IF ~IsKey(key) THEN [w |-> w, insert |-> ins, outcome |-> "ok"]
    ELSE IF key.full \in Bindings
    THEN CASE key.full = "home" ->
                  [w |-> [w EXCEPT !.cursorX = 0], insert |-> ins,
                   outcome |-> "caught"]
           [] key.full = "insert" ->
                  [w |-> w, insert |-> ~ins, outcome |-> "ok"]
           [] key.full = "C-v" ->
                  [w |-> w, insert |-> ins, outcome |-> "ok"]
           [] OTHER ->
                  [w |-> w, insert |-> ins, outcome |-> "caught"]
    ELSE IF key.sequence # << >>
    THEN [w |-> w, insert |-> ins, outcome |-> "escaped"]
    ELSE [w |-> w, insert |-> ins, outcome |-> "ok"]

\* the number of handlers press calls for the key
handlersCalled(key) == IF IsKey(key) /\ key.full \in Bindings THEN 1 ELSE 0

----------------------------------------------------------------------------
(* The pane as a state machine *)

\* the pane's state as the record the operators above work on
Win == [fileData |-> fileData, props |-> props,
        cursorX |-> cursorX, cursorY |-> cursorY,
        scrollOffsetX |-> scrollOffsetX, scrollOffsetY |-> scrollOffsetY]

\* the number of characters held by the lines of a sequence
RECURSIVE CharCount(_)
CharCount(ls) ==
    IF ls = << >> THEN 0
    ELSE (IF Head(ls) = Undefined THEN 0 ELSE Len(Head(ls)))
             + CharCount(Tail(ls))

\* the number of characters held by the properties at negative indices
RECURSIVE PropCharCount(_)
PropCharCount(p) ==
    IF DOMAIN p = {} THEN 0
    ELSE LET i == CHOOSE j \in DOMAIN p : TRUE
         IN  Len(p[i]) + PropCharCount([j \in DOMAIN p \ {i} |-> p[j]])

\* the states the model follows: the buffer stays within the bounds
Bounded(w) ==
    /\ Len(w.fileData) + Cardinality(DOMAIN w.props) <= MaxLines
    /\ CharCount(w.fileData) + PropCharCount(w.props) <= MaxChars

\* the contents a file is opened with (EditFile constructor)
InitialFiles == { << << >> >> }

\* the clipboard contents clipboardy.read() may return
Clipboards == { << >>, <<"a">>, <<"a", "LF", "a">>,
                <<"CR", "LF">>, <<"LF", "a", "LF">> }

\* the unbound keys with a sequence: a letter, and return (carriage return)
LiteralKeys == { [full |-> "a", sequence |-> <<"a">>],
                 [full |-> "return", sequence |-> <<"CR">>] }

\* the heights the layout gives the pane's element: a viewport of one row
\* and one of two rows
Heights == {3, 4}

Init ==
    /\ fileData \in InitialFiles
    /\ props = << >>
    /\ cursorX = 0
    /\ cursorY = 0
    /\ scrollOffsetX = 0
    /\ scrollOffsetY = 0
    /\ insert = TRUE
    /\ elementHeight \in Heights
    /\ lastKey = ""
    /\ outcome = "ok"
    /\ written = NoCall
    /\ NoService
    /\ NoStyle
    /\ NoAsync
    /\ NoApp

\* one key event delivered to the pane and handled to its end
KeyEvent(key, clip) ==
    \E r \in {press(Win, key, clip, insert, elementHeight)} :
        /\ Bounded(r.w)
        /\ fileData' = r.w.fileData
        /\ props' = r.w.props
        /\ cursorX' = r.w.cursorX
        /\ cursorY' = r.w.cursorY
        /\ scrollOffsetX' = r.w.scrollOffsetX
        /\ scrollOffsetY' = r.w.scrollOffsetY
        /\ insert' = r.insert
        /\ lastKey' = key.full
        /\ outcome' = r.outcome
        /\ UNCHANGED elementHeight
        /\ UNCHANGED others

Bound(full) == [full |-> full, sequence |-> << >>]

PressBackspace ==
    /\ "backspace" \in Bindings
    /\ KeyEvent(Bound("backspace"), << >>)

PressUp ==
    /\ "up" \in Bindings
    /\ KeyEvent(Bound("up"), << >>)

PressDown ==
    /\ "down" \in Bindings
    /\ KeyEvent(Bound("down"), << >>)

PressLeft ==
    /\ "left" \in Bindings
    /\ KeyEvent(Bound("left"), << >>)

PressRight ==
    /\ "right" \in Bindings
    /\ KeyEvent(Bound("right"), << >>)

PressTab ==
    /\ "tab" \in Bindings
    /\ KeyEvent(Bound("tab"), << >>)

PressDelete ==
    /\ "delete" \in Bindings
    /\ KeyEvent(Bound("delete"), << >>)

PressEnter ==
    /\ "enter" \in Bindings
    /\ KeyEvent(Bound("enter"), << >>)

PressPageUp ==
    /\ "pageup" \in Bindings
    /\ KeyEvent(Bound("pageup"), << >>)

PressPageDown ==
    /\ "pagedown" \in Bindings
    /\ KeyEvent(Bound("pagedown"), << >>)

PressHome ==
    /\ "home" \in Bindings
    /\ KeyEvent(Bound("home"), << >>)

PressEnd ==
    /\ "end" \in Bindings
    /\ KeyEvent(Bound("end"), << >>)

PressInsert ==
    /\ "insert" \in Bindings
    /\ KeyEvent(Bound("insert"), << >>)

PressPaste ==
    /\ "C-v" \in Bindings
    /\ \E clip \in Clipboards : KeyEvent(Bound("C-v"), clip)

\* a key with no handler bound to its name
PressLiteral ==
    \E key \in LiteralKeys :
        /\ key.full \notin Bindings
        /\ KeyEvent(key, << >>)

\* the terminal is resized: recalculateLayout gives the element its new
\* height and redraws
Resize ==
    /\ elementHeight' \in Heights \ {elementHeight}
    /\ lastKey' = "resize"
    /\ outcome' = "ok"
    /\ UNCHANGED <<fileData, props, cursorX, cursorY, scrollOffsetX,
                   scrollOffsetY, insert>>
    /\ UNCHANGED others

Next ==
    \/ PressBackspace \/ PressUp \/ PressDown \/ PressLeft \/ PressRight
    \/ PressTab \/ PressDelete \/ PressEnter \/ PressPageUp \/ PressPageDown
    \/ PressHome \/ PressEnd \/ PressInsert \/ PressPaste \/ PressLiteral
    \/ Resize

Spec == Init /\ [][Next]_vars

----------------------------------------------------------------------------
(* The pane under key events whose handlers overlap.  The keypress        *)
(* listener is an async function that nothing awaits: a handler runs      *)
(* until its first await that waits for something outside, and key events *)
(* that arrive meanwhile are handled before it goes on.  The handlers     *)
(* change the buffer and the cursor before their first await (redraw),    *)
(* except _handlePaste, which first awaits clipboardy.read() and does all *)
(* its work after it.  What redraw does after its own awaits touches      *)
(* neither the buffer nor the cursor.                                     *)

MaxKeys == 3        \* at most this many key events arrive
MaxPending == 1     \* at most this many paste handlers wait at a time

\* the keys other than paste: the bound ones and the literal ones
AsyncKeys == {Bound(full) : full \in Bindings \ {"C-v"}} \cup LiteralKeys

InitAsync ==
    /\ fileData \in InitialFiles
    /\ props = << >>
    /\ cursorX = 0
    /\ cursorY = 0
    /\ scrollOffsetX = 0
    /\ scrollOffsetY = 0
    /\ insert = TRUE
    /\ elementHeight = 3
    /\ lastKey = ""
    /\ outcome = "ok"
    /\ written = NoCall
    /\ NoService
    /\ NoStyle
    /\ pending = << >>
    /\ sequential = [w |-> Win, insert |-> insert]
    /\ arrived = 0
    /\ NoApp

\* the sequential pane handles the key to its end
Sequentially(key, clip) ==
    \E s \in {press(sequential.w, key, clip, sequential.insert,
                    elementHeight)} :
        /\ Bounded(s.w)
        /\ sequential' = [w |-> s.w, insert |-> s.insert]

\* a key other than paste arrives: its handler changes the pane at once
KeyArrives ==
    /\ arrived < MaxKeys
    /\ \E key \in AsyncKeys :
           \E r \in {press(Win, key, << >>, insert, elementHeight)} :
               /\ Bounded(r.w)
               /\ fileData' = r.w.fileData
               /\ props' = r.w.props
               /\ cursorX' = r.w.cursorX
               /\ cursorY' = r.w.cursorY
               /\ scrollOffsetX' = r.w.scrollOffsetX
               /\ scrollOffsetY' = r.w.scrollOffsetY
               /\ insert' = r.insert
               /\ lastKey' = key.full
               /\ outcome' = r.outcome
               /\ Sequentially(key, << >>)
    /\ arrived' = arrived + 1
    /\ UNCHANGED <<elementHeight, pending, written, serviceVars, styleVars,
                   appVars>>

\* C-v arrives: _handlePaste starts the clipboard read and waits for it
PasteArrives ==
    /\ arrived < MaxKeys
    /\ Len(pending) < MaxPending
    /\ \E clip \in Clipboards :
           /\ pending' = Append(pending, clip)
           /\ Sequentially(Bound("C-v"), clip)
    /\ arrived' = arrived + 1
    /\ lastKey' = "C-v"
    /\ UNCHANGED <<fileData, props, cursorX, cursorY, scrollOffsetX,
                   scrollOffsetY, insert, elementHeight, outcome, written,
                   serviceVars, styleVars, appVars>>

\* a clipboard read resolves: its _handlePaste goes on in the pane as it is
\* now
ClipboardRead ==
    \E i \in 1..Len(pending) :
        \E r \in {press(Win, Bound("C-v"), pending[i], insert,
                        elementHeight)} :
            /\ Bounded(r.w)
            /\ fileData' = r.w.fileData
            /\ props' = r.w.props
            /\ cursorX' = r.w.cursorX
            /\ cursorY' = r.w.cursorY
            /\ scrollOffsetX' = r.w.scrollOffsetX
            /\ scrollOffsetY' = r.w.scrollOffsetY
            /\ outcome' = r.outcome
            /\ pending' = SubSeq(pending, 1, i - 1)
                              \o SubSeq(pending, i + 1, Len(pending))
            /\ UNCHANGED <<insert, elementHeight, lastKey, sequential,
                           arrived, written, serviceVars, styleVars,
                           appVars>>

NextAsync == KeyArrives \/ PasteArrives \/ ClipboardRead

SpecAsync == InitAsync /\ [][NextAsync]_vars

----------------------------------------------------------------------------
(* EditFile on its own: writeText called directly on a buffer *)

\* the arrays of lines the constructor is given
WriteFiles == { << >>, << << >> >>, << <<"a", "b">> >> }

\* the texts written
Texts == { << >>, <<"a">>, <<"b">>, <<"a", "b">> }

InitWrite ==
    /\ fileData \in WriteFiles
    /\ props = << >>
    /\ cursorX = 0
    /\ cursorY = 0
    /\ scrollOffsetX = 0
    /\ scrollOffsetY = 0
    /\ insert = TRUE
    /\ elementHeight = 3
    /\ lastKey = ""
    /\ outcome = "ok"
    /\ written = NoCall
    /\ NoService
    /\ NoStyle
    /\ NoAsync
    /\ NoApp

\* writeText(text, x, y, ins) on the buffer
WriteText ==
    \E text \in Texts, x \in 0..MaxChars, y \in 0..(MaxLines - 1),
       ins \in BOOLEAN :
        \E r \in {writeText(Win, text, x, y, ins)} :
            /\ ~r.threw
            /\ Bounded(r.w)
            /\ fileData' = r.w.fileData
            /\ props' = r.w.props
            /\ written' = [text |-> text, x |-> x, y |-> y, insert |-> ins]
            /\ UNCHANGED <<cursorX, cursorY, scrollOffsetX, scrollOffsetY,
                           insert, elementHeight, lastKey, outcome>>
            /\ UNCHANGED <<serviceVars, styleVars, asyncVars, appVars>>

NextWrite == WriteText

SpecWrite == InitWrite /\ [][NextWrite]_vars

----------------------------------------------------------------------------
(* WindowService: the panes, their layout and the focus.  A pane is a     *)
(* record holding its identity, its class (kind) and the IWindow members  *)
(* the service reads; an entry of windows pairs it with its element.      *)

\* the top menu bar height
menuBarHeight == 1

\* the sizes the terminal takes, <<width, height>>: a usual one, and one
\* narrower than the file explorer and as high as the AI prompt
ScreenSizes == { <<100, 24>>, <<20, 3>> }

\* v || d for a number v
OrDefault(v, d) == IF v = Null THEN d ELSE v

\* new EditWindow(...) with the anchors and dimensions the factory sets
createWindow(id, options) ==
    [id |-> id, kind |-> "EditWindow",
     anchorTop |-> options.anchorTop, anchorBottom |-> options.anchorBottom,
     anchorLeft |-> options.anchorLeft, anchorRight |-> options.anchorRight,
     width |-> options.width, height |-> options.height,
     borderColor |-> "yellow", focusBorderColor |-> "white"]

\* the options of a pane anchored on the given edges, of the given size
Options(aT, aB, aL, aR, width, height) ==
    [anchorTop |-> aT, anchorBottom |-> aB, anchorLeft |-> aL,
     anchorRight |-> aR, width |-> width, height |-> height]

createEmptyWindow(id, aT, aB, aL, aR) ==
    createWindow(id, Options(aT, aB, aL, aR, Null, Null))

\* new FileExplorer(windowService)
FileExplorer(id) ==
    [id |-> id, kind |-> "FileExplorer",
     anchorTop |-> FALSE, anchorBottom |-> FALSE,
     anchorLeft |-> TRUE, anchorRight |-> FALSE,
     width |-> 30, height |-> Null,
     borderColor |-> "blue", focusBorderColor |-> "brightBlue"]

\* new AIPrompt(windowService)
AIPrompt(id) ==
    [id |-> id, kind |-> "AIPrompt",
     anchorTop |-> FALSE, anchorBottom |-> TRUE,
     anchorLeft |-> TRUE, anchorRight |-> TRUE,
     width |-> Null, height |-> 3,
     borderColor |-> "green", focusBorderColor |-> "brightGreen"]

\* new SettingsWindow(windowService): an EditWindow without anchors
SettingsWindow(id) ==
    [id |-> id, kind |-> "SettingsWindow",
     anchorTop |-> FALSE, anchorBottom |-> FALSE,
     anchorLeft |-> FALSE, anchorRight |-> FALSE,
     width |-> Null, height |-> Null,
     borderColor |-> "yellow", focusBorderColor |-> "white"]

\* the element a pane creates: its border has the pane's borderColor, the
\* layout places it
createUIElement(window) ==
    [top |-> 0, left |-> 0, width |-> 0, height |-> 0,
     fg |-> window.borderColor]

\* the service's state as the record the operators below work on
Service == [windows |-> windows, currentWindow |-> currentWindow]

\* windows.findIndex(w => w.window === window), 1-based; 0 when none
IndexOf(ws, id) ==
    IF \E i \in 1..Len(ws) : ws[i].window.id = id
    THEN CHOOSE i \in 1..Len(ws) :
             /\ ws[i].window.id = id
             /\ \A j \in 1..(i - 1) : ws[j].window.id # id
    ELSE 0

\* windows.findIndex(w => w.window instanceof kind), 1-based; 0 when none
IndexOfKind(ws, kind) ==
    IF \E i \in 1..Len(ws) : ws[i].window.kind = kind
    THEN CHOOSE i \in 1..Len(ws) :
             /\ ws[i].window.kind = kind
             /\ \A j \in 1..(i - 1) : ws[j].window.kind # kind
    ELSE 0

\* the panes a suspended _handleSubmit still refers to
Referred ==
    {awaiting[i].prompt : i \in 1..Len(awaiting)}
        \cup {awaiting[i].resultWindow : i \in 1..Len(awaiting)}

\* the identity of a pane object created now: one no pane in use has
NewId(S) ==
    CHOOSE id \in 1..(Len(S.windows) + 2 + 2 * Len(awaiting)) :
        /\ id # S.currentWindow
        /\ id \notin Referred
        /\ IndexOf(S.windows, id) = 0
        /\ \A j \in 1..(id - 1) :
               \/ j = S.currentWindow
               \/ j \in Referred
               \/ IndexOf(S.windows, j) # 0

IsFileExplorer(entry) == entry.window.kind = "FileExplorer"
IsAIPrompt(entry) == entry.window.kind = "AIPrompt"

\* the geometry recalculateLayout assigns: the file explorer on the left,
\* the AI prompt at the bottom, every other pane in the space that remains
recalculateLayout(ws, sw, sh) ==
    LET fileExplorerEntries == SelectSeq(ws, IsFileExplorer)
        aiPromptEntries     == SelectSeq(ws, IsAIPrompt)
        hasFileExplorer     == Len(fileExplorerEntries) > 0
        hasAIPrompt         == Len(aiPromptEntries) > 0
        fileExplorerWidth   ==
            IF hasFileExplorer
            THEN OrDefault(fileExplorerEntries[Len(fileExplorerEntries)]
                               .window.width, 30)
            ELSE 0
        aiPromptHeight      ==
            IF hasAIPrompt
            THEN OrDefault(aiPromptEntries[Len(aiPromptEntries)]
                               .window.height, 3)
            ELSE 0
        place(entry) ==
            IF IsFileExplorer(entry)
            THEN [entry EXCEPT
                     !.element.top = menuBarHeight,
                     !.element.left = 0,
                     !.element.width = OrDefault(entry.window.width, 30),
                     !.element.height = sh - menuBarHeight]
            ELSE IF IsAIPrompt(entry)
            THEN [entry EXCEPT
                     !.element.height = OrDefault(entry.window.height, 3),
                     !.element.top = sh - OrDefault(entry.window.height, 3),
                     !.element.left = fileExplorerWidth,
                     !.element.width = sw - fileExplorerWidth]
            ELSE [entry EXCEPT
                     !.element.top = menuBarHeight,
                     !.element.left =
                         IF hasFileExplorer THEN fileExplorerWidth ELSE 0,
                     !.element.width =
                         IF hasFileExplorer THEN sw - fileExplorerWidth
                                            ELSE sw,
                     !.element.height =
                         IF hasAIPrompt
                         THEN sh - menuBarHeight - aiPromptHeight
                         ELSE sh - menuBarHeight]
    IN  [i \in 1..Len(ws) |-> place(ws[i])]

\* the service after its layout is recalculated
Layout(S, sw, sh) ==
    [S EXCEPT !.windows = recalculateLayout(@, sw, sh)]

\* focusWindow, but without the test that the pane is in the collection
focusWindowUnchecked(S, id) ==
    [currentWindow |-> id,
     windows |-> [i \in 1..Len(S.windows) |->
         [S.windows[i] EXCEPT !.element.fg =
             IF S.windows[i].window.id = id
             THEN S.windows[i].window.focusBorderColor
             ELSE S.windows[i].window.borderColor]]]

focusWindow(S, id) ==
    IF id # Null /\ IndexOf(S.windows, id) # 0
    THEN [currentWindow |-> id,
          windows |-> [i \in 1..Len(S.windows) |->
              [S.windows[i] EXCEPT !.element.fg =
                  IF S.windows[i].window.id = id
                  THEN S.windows[i].window.focusBorderColor
                  ELSE S.windows[i].window.borderColor]]]
    ELSE S

addWindow(S, window, sw, sh) ==
    Layout([windows |->
                Append(S.windows, [window |-> window,
                                   element |-> createUIElement(window)]),
            currentWindow |->
                IF S.currentWindow = Null THEN window.id
                                          ELSE S.currentWindow],
           sw, sh)

removeWindow(S, id, sw, sh) ==
    LET index == IndexOf(S.windows, id)
        rest  == [windows |-> SubSeq(S.windows, 1, index - 1)
                                 \o SubSeq(S.windows, index + 1,
                                           Len(S.windows)),
                  currentWindow |-> S.currentWindow]
    IN  IF index # 0
        THEN Layout(IF S.currentWindow = id
                    THEN IF Len(rest.windows) > 0
                         THEN focusWindow(rest, rest.windows[1].window.id)
                         ELSE [rest EXCEPT !.currentWindow = Null]
                    ELSE rest,
                    sw, sh)
        ELSE S

\* next, but at the last pane the focus stays instead of wrapping around
nextStopping(S) ==
    LET currentIndex == IndexOf(S.windows, S.currentWindow)
        nextIndex    == Min(currentIndex + 1, Len(S.windows))
    IN  IF Len(S.windows) <= 1 THEN S
        ELSE IF currentIndex = 0
        THEN focusWindow(S, S.windows[1].window.id)
        ELSE focusWindow(S, S.windows[nextIndex].window.id)

next(S) ==
    LET currentIndex == IndexOf(S.windows, S.currentWindow)
        nextIndex    == (currentIndex % Len(S.windows)) + 1
    IN  IF Len(S.windows) <= 1 THEN S
        ELSE IF currentIndex = 0
        THEN focusWindow(S, S.windows[1].window.id)
        ELSE focusWindow(S, S.windows[nextIndex].window.id)

openFile(S, sw, sh) ==
    LET hasFileExplorer == IndexOfKind(S.windows, "FileExplorer") # 0
        window == createWindow(NewId(S),
                      Options(TRUE, TRUE, ~hasFileExplorer, TRUE, Null, Null))
    IN  Layout(focusWindow(addWindow(S, window, sw, sh), window.id), sw, sh)

createAIPrompt(S, sw, sh) ==
    LET existingPromptIndex == IndexOfKind(S.windows, "AIPrompt")
        aiPrompt == AIPrompt(NewId(S))
    IN  IF existingPromptIndex # 0
        THEN focusWindow(S, S.windows[existingPromptIndex].window.id)
        ELSE focusWindow(addWindow(S, aiPrompt, sw, sh), aiPrompt.id)

createSettingsWindow(S, sw, sh) ==
    LET existingSettingsIndex == IndexOfKind(S.windows, "SettingsWindow")
        settingsWindow == SettingsWindow(NewId(S))
    IN  IF existingSettingsIndex # 0
        THEN focusWindow(S, S.windows[existingSettingsIndex].window.id)
        ELSE focusWindow(addWindow(S, settingsWindow, sw, sh),
                         settingsWindow.id)

createFileExplorer(S, sw, sh) ==
    LET existingExplorerIndex == IndexOfKind(S.windows, "FileExplorer")
        existing     == S.windows[existingExplorerIndex].window.id
        fileExplorer == FileExplorer(NewId(S))
    IN  IF existingExplorerIndex # 0
        THEN IF S.currentWindow = existing
             THEN removeWindow(next(S), existing, sw, sh)
             ELSE focusWindow(S, existing)
        ELSE Layout(focusWindow(addWindow(S, fileExplorer, sw, sh),
                                fileExplorer.id),
                    sw, sh)

\* EventController._handleCloseWindow
_handleCloseWindow(S, sw, sh) ==
    IF S.currentWindow # Null /\ Len(S.windows) > 1
    THEN removeWindow(next(S), S.currentWindow, sw, sh)
    ELSE S

\* AIPrompt.resultWindow of the prompt, null before its first submit
ResultWindowOf(prompt) ==
    IF \E i \in 1..Len(awaiting) : awaiting[i].prompt = prompt
    THEN awaiting[CHOOSE i \in 1..Len(awaiting) :
                      awaiting[i].prompt = prompt].resultWindow
    ELSE Null

\* AIPrompt._closeWindow: the prompt takes itself out of the collection
_closeWindow(S, prompt, resultWindow, sw, sh) ==
    LET windowIndex == IndexOf(S.windows, prompt)
        rest == [windows |-> SubSeq(S.windows, 1, windowIndex - 1)
                                \o SubSeq(S.windows, windowIndex + 1,
                                          Len(S.windows)),
                 currentWindow |-> S.currentWindow]
        windowToFocus == IF resultWindow # Null
                         THEN resultWindow
                         ELSE rest.windows[1].window.id
    IN  IF windowIndex # 0
        THEN Layout(IF S.currentWindow = prompt
                    THEN IF Len(rest.windows) > 0
                         THEN focusWindow(rest, windowToFocus)
                         ELSE [rest EXCEPT !.currentWindow = Null]
                    ELSE rest,
                    sw, sh)
        ELSE removeWindow(S, prompt, sw, sh)

\* AIPrompt._createResultWindow: an edit pane above the prompt, not focused
_createResultWindow(S, id, sw, sh) ==
    addWindow(S, createWindow(id, Options(FALSE, TRUE, TRUE, TRUE, Null, 15)),
              sw, sh)

----------------------------------------------------------------------------
(* The window service as a state machine *)

\* the edit pane is left out
NoEditor ==
    /\ fileData = << << >> >>
    /\ props = << >>
    /\ cursorX = 0
    /\ cursorY = 0
    /\ scrollOffsetX = 0
    /\ scrollOffsetY = 0
    /\ insert = TRUE
    /\ elementHeight = 3
    /\ lastKey = ""
    /\ outcome = "ok"

\* the constructor: one empty pane anchored on all four sides
InitWindows ==
    /\ NoEditor
    /\ written = NoCall
    /\ NoStyle
    /\ NoAsync
    /\ NoApp
    /\ \E size \in ScreenSizes :
           screenWidth = size[1] /\ screenHeight = size[2]
    /\ \E S \in {addWindow([windows |-> << >>, currentWindow |-> Null],
                           createEmptyWindow(1, TRUE, TRUE, TRUE, TRUE),
                           screenWidth, screenHeight)} :
           /\ windows = S.windows
           /\ currentWindow = S.currentWindow
    /\ lastOp = [op |-> "constructor", arg |-> Null]

\* the service goes to the state S by the operation op with argument arg
Becomes(S, op, arg) ==
    /\ Len(S.windows) <= MaxWindows
    /\ windows' = S.windows
    /\ currentWindow' = S.currentWindow
    /\ lastOp' = [op |-> op, arg |-> arg]
    /\ UNCHANGED <<screenWidth, screenHeight, editorVars, written, styleVars,
                   asyncVars, appVars>>

OpenFile ==
    \E S \in {openFile(Service, screenWidth, screenHeight)} :
        Becomes(S, "openFile", Null)

CreateAIPrompt ==
    \E S \in {createAIPrompt(Service, screenWidth, screenHeight)} :
        Becomes(S, "createAIPrompt", Null)

CreateSettingsWindow ==
    \E S \in {createSettingsWindow(Service, screenWidth, screenHeight)} :
        Becomes(S, "createSettingsWindow", Null)

CreateFileExplorer ==
    \E S \in {createFileExplorer(Service, screenWidth, screenHeight)} :
        Becomes(S, "createFileExplorer", Null)

\* the options of the panes built with the factory and added directly: the
\* AI result pane, and a column of width 30 anchored top, bottom and left
FactoryOptions == { Options(FALSE, TRUE, TRUE, TRUE, Null, 15),
                    Options(TRUE, TRUE, TRUE, FALSE, 30, Null) }

AddWindow ==
    \E options \in FactoryOptions :
        \E S \in {addWindow(Service, createWindow(NewId(Service), options),
                            screenWidth, screenHeight)} :
            Becomes(S, "addWindow", NewId(Service))

\* focusWindow with any pane, in the collection or not, or null
FocusWindow ==
    \E id \in 0..(MaxWindows + 1) :
        \E S \in {focusWindow(Service, id)} :
            Becomes(S, "focusWindow", id)

NextWindow ==
    \E S \in {next(Service)} : Becomes(S, "next", Null)

CloseWindow ==
    \E S \in {_handleCloseWindow(Service, screenWidth, screenHeight)} :
        Becomes(S, "closeWindow", Null)

\* the terminal is resized
ScreenResize ==
    \E size \in ScreenSizes \ {<<screenWidth, screenHeight>>} :
        /\ screenWidth' = size[1]
        /\ screenHeight' = size[2]
        /\ windows' = recalculateLayout(windows, size[1], size[2])
        /\ lastOp' = [op |-> "resize", arg |-> Null]
        /\ UNCHANGED <<currentWindow, editorVars, written, styleVars,
                       asyncVars, appVars>>

NextWindows ==
    \/ OpenFile \/ CreateAIPrompt \/ CreateSettingsWindow
    \/ CreateFileExplorer \/ AddWindow \/ FocusWindow \/ NextWindow
    \/ CloseWindow \/ ScreenResize

SpecWindows == InitWindows /\ [][NextWindows]_vars

----------------------------------------------------------------------------
(* Key events on their way to the pane: the keypress listener of app.js   *)
(* hands them to EventController.press, which forwards them to the        *)
(* focused pane's press.  The pane is the one the service is constructed  *)
(* with; New File of the file menu takes its file away.                   *)

\* key events without a name: undefined, one without full, one whose full
\* is the empty string
MalformedKeys == { [undefined |-> TRUE],
                   [sequence |-> <<"a">>],
                   [full |-> "", sequence |-> <<"a">>] }

\* the key events that arrive
PressKeys == {Bound(full) : full \in Bindings} \cup LiteralKeys
                 \cup MalformedKeys

\* what the clipboard may hold when the key is handled
ClipboardsFor(key) ==
    IF IsKey(key) /\ key.full = "C-v" THEN Clipboards ELSE { << >> }

\* the name of the key, the empty string when it has none
FullOf(key) == IF IsKey(key) THEN key.full ELSE ""

InitPress ==
    /\ fileData \in InitialFiles
    /\ props = << >>
    /\ cursorX = 0
    /\ cursorY = 0
    /\ scrollOffsetX = 0
    /\ scrollOffsetY = 0
    /\ insert = TRUE
    /\ lastKey = ""
    /\ outcome = "ok"
    /\ written = NoCall
    /\ NoStyle
    /\ NoAsync
    /\ NoApp
    /\ screenWidth = 100
    /\ screenHeight = 24
    /\ \E S \in {addWindow([windows |-> << >>, currentWindow |-> Null],
                           createEmptyWindow(1, TRUE, TRUE, TRUE, TRUE),
                           screenWidth, screenHeight)} :
           /\ windows = S.windows
           /\ currentWindow = S.currentWindow
           /\ elementHeight = S.windows[1].element.height
    /\ lastOp = [op |-> "constructor", arg |-> Null]

\* the pane's press is called with the key and runs to its end
PanePress(key, clip, op) ==
    \E r \in {IF currentWindow \in noFile
              THEN pressNoFile(Win, key, clip, insert, elementHeight)
              ELSE press(Win, key, clip, insert, elementHeight)} :
        /\ Bounded(r.w)
        /\ fileData' = r.w.fileData
        /\ props' = r.w.props
        /\ cursorX' = r.w.cursorX
        /\ cursorY' = r.w.cursorY
        /\ scrollOffsetX' = r.w.scrollOffsetX
        /\ scrollOffsetY' = r.w.scrollOffsetY
        /\ insert' = r.insert
        /\ outcome' = r.outcome
        /\ lastKey' = FullOf(key)
        /\ lastOp' = [op |-> op, arg |-> handlersCalled(key)]

\* a key event arrives: EventController.press returns at once when it has
\* no name, and forwards it to the focused pane otherwise (no modal is up)
Keypress ==
    /\ arrived < MaxKeys
    /\ arrived' = arrived + 1
    /\ \E key \in PressKeys :
           IF ~IsKey(key)
           THEN /\ forwarded' = Null
                /\ lastKey' = ""
                /\ outcome' = "ok"
                /\ lastOp' = [op |-> "keypress", arg |-> 0]
                /\ UNCHANGED <<fileData, props, cursorX, cursorY,
                               scrollOffsetX, scrollOffsetY, insert>>
           ELSE /\ forwarded' = currentWindow
                /\ \E clip \in ClipboardsFor(key) :
                       PanePress(key, clip, "keypress")
    /\ UNCHANGED <<elementHeight, written, windows, currentWindow,
                   screenWidth, screenHeight, styleVars, pending, sequential,
                   awaiting, modalActive, modal, noFile, redrawn, eventVars,
                   terminal>>

\* the focused pane's press is called directly
WindowPress ==
    /\ arrived < MaxKeys
    /\ arrived' = arrived + 1
    /\ \E key \in PressKeys :
           \E clip \in ClipboardsFor(key) : PanePress(key, clip, "press")
    /\ UNCHANGED <<elementHeight, written, windows, currentWindow,
                   screenWidth, screenHeight, styleVars, pending, sequential,
                   appVars>>

\* New File of the file menu: _handleNew takes the file from the focused
\* pane and resets its cursor; the redraw it ends with reads the file
NewFile ==
    /\ noFile' = noFile \cup {currentWindow}
    /\ cursorX' = 0
    /\ cursorY' = 0
    /\ outcome' = "escaped"
    /\ lastKey' = "New File"
    /\ lastOp' = [op |-> "_handleNew", arg |-> 0]
    /\ UNCHANGED <<fileData, props, scrollOffsetX, scrollOffsetY, insert,
                   elementHeight, written, windows, currentWindow,
                   screenWidth, screenHeight, styleVars, asyncVars, awaiting,
                   modalActive, modal, redrawn, forwarded, eventVars,
                   terminal>>

NextPress == Keypress \/ WindowPress \/ NewFile

SpecPress == InitPress /\ [][NextPress]_vars

----------------------------------------------------------------------------
(* The application: the keypress listener of app.js, the shortcuts and    *)
(* menu items of EventController, the AI prompt and the file explorer     *)
(* under the keys forwarded to them.  Panes are followed as the window    *)
(* service sees them; of their content only whether an edit pane has a    *)
(* file.                                                                  *)

\* the panes of the collection, in its order
PaneIds(ws) == [i \in 1..Len(ws) |-> ws[i].window.id]

\* the panes the redraw loop of recalculateLayout reaches: it awaits the
\* redraw of each pane in turn, and the redraw of an edit pane without a
\* file throws
redrawLoop(ws, without) ==
    LET throws(i) == /\ ws[i].window.kind = "EditWindow"
                     /\ ws[i].window.id \in without
    IN  { ws[i].window.id : i \in { j \in 1..Len(ws) :
                                       \A k \in 1..(j - 1) : ~throws(k) } }

\* the application as it is, no key forwarded and no layout made
Now == [S |-> Service, noFile |-> noFile, modalActive |-> modalActive,
        modal |-> modal, forwarded |-> Null, awaiting |-> awaiting,
        laidOut |-> FALSE]

\* ... with the service changed to S
NowWith(S) == [Now EXCEPT !.S = S]

\* the class of the focused pane ("" when there is none); a focused pane
\* that left the collection is an AI prompt
FocusedKind ==
    IF currentWindow = Null THEN ""
    ELSE IF IndexOf(windows, currentWindow) = 0 THEN "AIPrompt"
    ELSE windows[IndexOf(windows, currentWindow)].window.kind

\* the handler leaves the application as R says; recalculateLayout was
\* called if R says so or the collection changed.  The last operation is
\* recorded as a key event ("key"), the close window handler
\* ("closeWindow"), the end of the modal ("read", "readFailed", "cancelled")
\* or another handler ("handler")
Handles(op, R) ==
    /\ Len(R.S.windows) <= MaxPanes
    /\ windows' = R.S.windows
    /\ currentWindow' = R.S.currentWindow
    /\ noFile' = R.noFile \cap Range(PaneIds(R.S.windows))
    /\ modalActive' = R.modalActive
    /\ modal' = R.modal
    /\ forwarded' = R.forwarded
    /\ awaiting' = R.awaiting
    /\ redrawn' = IF R.laidOut \/ PaneIds(R.S.windows) # PaneIds(windows)
                  THEN redrawLoop(R.S.windows, noFile')
                  ELSE redrawn
    /\ lastOp' = [op |-> op, arg |-> Null]
    /\ UNCHANGED <<editorVars, written, screenWidth, screenHeight, styleVars,
                   asyncVars, eventVars, terminal>>

\* the application once started: the constructor's pane, and the one of
\* the openFile call app.js ends with
Started ==
    /\ NoEditor
    /\ written = NoCall
    /\ NoStyle
    /\ NoAsync
    /\ awaiting = << >>
    /\ modalActive = FALSE
    /\ modal = "none"
    /\ noFile = {}
    /\ forwarded = Null
    /\ terminal = NotMoved
    /\ screenWidth = 100
    /\ screenHeight = 24
    /\ \E S \in {openFile(addWindow([windows |-> << >>,
                                     currentWindow |-> Null],
                                    createEmptyWindow(1, TRUE, TRUE, TRUE,
                                                      TRUE),
                                    screenWidth, screenHeight),
                          screenWidth, screenHeight)} :
           /\ windows = S.windows
           /\ currentWindow = S.currentWindow
           /\ redrawn = redrawLoop(S.windows, {})
    /\ lastOp = [op |-> "openFile", arg |-> Null]

\* ... with no handler added and the panes' content left aside
InitController == Started /\ NoEvents

\* C-space: the keypress listener creates or focuses the AI prompt
CtrlSpace ==
    \E S \in {createAIPrompt(Service, screenWidth, screenHeight)} :
        Handles("key", NowWith(S))

\* M-tab, C-tab: the keypress listener cycles the focus
AltTab ==
    \E S \in {next(Service)} : Handles("key", NowWith(S))

\* C-e, C-b: the file explorer shortcut of EventController
ExplorerKey ==
    \E S \in {IF modalActive THEN Service
              ELSE createFileExplorer(Service, screenWidth, screenHeight)} :
        Handles("key", NowWith(S))

\* f6: the window cycling shortcut of EventController
F6 ==
    \E S \in {IF modalActive THEN Service ELSE next(Service)} :
        Handles("key", NowWith(S))

\* C-w: the close window shortcut of EventController
CtrlW ==
    IF modalActive
    THEN Handles("key", Now)
    ELSE \E S \in {_handleCloseWindow(Service, screenWidth, screenHeight)} :
             Handles("closeWindow", NowWith(S))

\* the other keys that arrive: enter, escape, a letter, and a key without a
\* name
ControllerKeys == { Bound("enter"), Bound("escape"),
                    [full |-> "a", sequence |-> <<"a">>],
                    [sequence |-> <<"a">>] }

\* AIPrompt._handleSubmit up to its await: an empty prompt closes, another
\* one opens its result pane and asks the AI service
_handleSubmit ==
    { NowWith(_closeWindow(Service, currentWindow,
                           ResultWindowOf(currentWindow),
                           screenWidth, screenHeight)) }
        \cup
    { [Now EXCEPT
          !.S = _createResultWindow(Service, NewId(Service),
                                    screenWidth, screenHeight),
          !.awaiting =
              Append([i \in 1..Len(awaiting) |->
                         IF awaiting[i].prompt = currentWindow
                         THEN [awaiting[i] EXCEPT
                                  !.resultWindow = NewId(Service)]
                         ELSE awaiting[i]],
                     [prompt |-> currentWindow,
                      resultWindow |-> NewId(Service)])] :
          b \in IF Len(awaiting) < MaxPending THEN {TRUE} ELSE {} }

\* FileExplorer._handleEnter: a directory is entered, a file is opened in
\* a new pane
ExplorerEnter ==
    { Now, NowWith(openFile(Service, screenWidth, screenHeight)) }

\* FileExplorer._handleEscape: the first EditWindow is focused
ExplorerEscape ==
    IF IndexOfKind(windows, "EditWindow") # 0
    THEN NowWith(focusWindow(Service,
             windows[IndexOfKind(windows, "EditWindow")].window.id))
    ELSE Now

\* what the focused pane's press makes of the key
paneHandles(key) ==
    CASE FocusedKind = "AIPrompt" /\ key.full = "enter" -> _handleSubmit
      [] FocusedKind = "AIPrompt" /\ key.full = "escape" ->
             { NowWith(_closeWindow(Service, currentWindow,
                                    ResultWindowOf(currentWindow),
                                    screenWidth, screenHeight)) }
      [] FocusedKind = "FileExplorer" /\ key.full = "enter" -> ExplorerEnter
      [] FocusedKind = "FileExplorer" /\ key.full = "escape" ->
             { ExplorerEscape }
      [] OTHER -> { Now }

\* EventController.press: keys with a name go to the focused pane unless a
\* modal is up
KeyForwarded ==
    \E key \in ControllerKeys :
        IF ~IsKey(key) \/ modalActive \/ currentWindow = Null
        THEN Handles("key", Now)
        ELSE \E R \in paneHandles(key) :
                 Handles("key", [R EXCEPT !.forwarded = currentWindow])

\* New File of the file menu: _handleNew
NewFileItem ==
    /\ ~modalActive
    /\ Cardinality(noFile) < MaxNoFile
    /\ Handles("handler",
               [Now EXCEPT !.noFile =
                   IF FocusedKind = "EditWindow"
                   THEN noFile \cup {currentWindow} ELSE noFile])

\* Open File of the file menu: _handleOpen sets the flag and shows the file
\* selection modal
OpenFileItem ==
    /\ ~modalActive
    /\ Handles("handler", [Now EXCEPT !.modalActive = TRUE,
                                      !.modal = "shown"])

\* a file is selected in the modal: _completeSelection destroys the modal
\* and calls onSelect, which starts reading the file
ModalSelect ==
    /\ modal = "shown"
    /\ Handles("handler", [Now EXCEPT !.modal = "reading"])

\* onSelect after its await, the finally block left out: the flag stays when
\* reading the file failed
ReadDoneUnguarded ==
    /\ modal = "reading"
    /\ \E read \in BOOLEAN :
           Handles(IF read THEN "read" ELSE "readFailed",
                   [Now EXCEPT !.modalActive = IF read THEN FALSE
                                               ELSE modalActive,
                               !.modal = "none",
                               !.noFile = IF read /\ currentWindow # Null
                                          THEN noFile \ {currentWindow}
                                          ELSE noFile])

\* onSelect after its await: the file read becomes the focused pane's file,
\* a failure is caught, and either way the flag is reset
ReadDone ==
    /\ modal = "reading"
    /\ \E read \in BOOLEAN :
           Handles(IF read THEN "read" ELSE "readFailed",
                   [Now EXCEPT !.modalActive = FALSE,
                               !.modal = "none",
                               !.noFile = IF read /\ currentWindow # Null
                                          THEN noFile \ {currentWindow}
                                          ELSE noFile])

\* the modal is cancelled: _handleCancel destroys it and calls onCancel
ModalCancel ==
    /\ modal = "shown"
    /\ Handles("cancelled", [Now EXCEPT !.modalActive = FALSE,
                                        !.modal = "none"])

\* the AI service answers: _handleSubmit goes on after its await and closes
\* the prompt
AIResponse ==
    \E i \in 1..Len(awaiting) :
        Handles("handler",
                [Now EXCEPT
                    !.S = _closeWindow(Service, awaiting[i].prompt,
                                       awaiting[i].resultWindow,
                                       screenWidth, screenHeight),
                    !.awaiting = SubSeq(awaiting, 1, i - 1)
                                     \o SubSeq(awaiting, i + 1,
                                               Len(awaiting))])

\* the terminal is resized: recalculateLayout
TerminalResize ==
    \E R \in {[Now EXCEPT !.laidOut = TRUE]} : Handles("handler", R)

\* keys, the modal and the AI service; every edit pane keeps its file
NextController ==
    \/ CtrlSpace \/ AltTab \/ ExplorerKey \/ F6 \/ CtrlW \/ KeyForwarded
    \/ OpenFileItem \/ ModalSelect \/ ReadDone \/ ModalCancel \/ AIResponse

SpecController == InitController /\ [][NextController]_vars

\* the layouts made while edit panes may be without a file: panes come
\* and go, New File is chosen, the terminal is resized
NextLayout ==
    \/ CtrlSpace \/ AltTab \/ ExplorerKey \/ F6 \/ CtrlW \/ KeyForwarded
    \/ NewFileItem \/ TerminalResize

SpecLayout == InitController /\ [][NextLayout]_vars

\* the file selection modal among the keys; a file read that was started
\* comes to its end
NextModal ==
    \/ OpenFileItem \/ ModalSelect \/ ReadDone \/ ModalCancel
    \/ CtrlSpace \/ AltTab \/ ExplorerKey \/ F6 \/ CtrlW \/ KeyForwarded

SpecModal == InitController /\ [][NextModal]_vars /\ WF_vars(ReadDone)

----------------------------------------------------------------------------
(* WindowService.updateCursor: the terminal cursor follows the focused    *)
(* pane's cursor                                                          *)

\* the cursor columns, the cursor rows and the scroll offsets of the pane:
\* the first and the last rows of a viewport of 21 rows, and the next one
CursorColumns == 0..MaxChars
CursorRows == {0, 1, 20, 21}
ScrollOffsets == {0, 1}

\* updateCursor, but taking the buffer row for the row on the screen
updateCursorUnscrolled(S, win, ins, term) ==
    LET index   == IndexOf(S.windows, S.currentWindow)
        element == S.windows[index].element
        termX   == win.cursorX + 1
        termY   == win.cursorY + 1
        absX    == element.left + termX
        absY    == element.top + termY
        height  == element.height - 2
    IN  IF S.currentWindow = Null THEN term
        ELSE IF index = 0 THEN term
        ELSE IF termY >= 1 /\ termY <= height
        THEN [moved |-> TRUE, x |-> absX, y |-> absY,
              style |-> IF ins THEN "bar" ELSE "block"]
        ELSE term

\* the terminal after updateCursor, the focused pane being win
updateCursor(S, win, ins, term) ==
    LET index   == IndexOf(S.windows, S.currentWindow)
        element == S.windows[index].element
        termX   == win.cursorX + 1
        termY   == win.cursorY - win.scrollOffsetY + 1
        absX    == element.left + termX
        absY    == element.top + termY
        height  == element.height - 2
    IN  IF S.currentWindow = Null THEN term
        ELSE IF index = 0 THEN term
        ELSE IF termY >= 1 /\ termY <= height
        THEN [moved |-> TRUE, x |-> absX, y |-> absY,
              style |-> IF ins THEN "bar" ELSE "block"]
        ELSE term

\* the window service as constructed, its pane with the cursor somewhere in
\* a file; no caller of the factory passes scrollOffsetX and no handler
\* assigns it, so it is 0
InitCursor ==
    /\ fileData = << << >> >>
    /\ props = << >>
    /\ cursorX \in CursorColumns
    /\ cursorY \in CursorRows
    /\ scrollOffsetX = 0
    /\ scrollOffsetY \in ScrollOffsets
    /\ insert \in BOOLEAN
    /\ lastKey = ""
    /\ outcome = "ok"
    /\ written = NoCall
    /\ NoStyle
    /\ NoAsync
    /\ NoApp
    /\ \E size \in ScreenSizes :
           screenWidth = size[1] /\ screenHeight = size[2]
    /\ \E S \in {addWindow([windows |-> << >>, currentWindow |-> Null],
                           createEmptyWindow(1, TRUE, TRUE, TRUE, TRUE),
                           screenWidth, screenHeight)} :
           /\ windows = S.windows
           /\ currentWindow = S.currentWindow
           /\ elementHeight = S.windows[1].element.height
    /\ lastOp = [op |-> "constructor", arg |-> Null]

\* a key handler of the pane moves its cursor and scrolls it
SetCursor ==
    /\ cursorY' \in CursorRows
    /\ scrollOffsetY' \in ScrollOffsets
    /\ lastOp' = [op |-> "setCursor", arg |-> Null]
    /\ UNCHANGED <<fileData, props, cursorX, scrollOffsetX, insert,
                   elementHeight, lastKey, outcome, written, windows,
                   currentWindow, screenWidth, screenHeight, styleVars,
                   asyncVars, appVars>>

\* redraw and focusWindow end with updateCursor
UpdateCursor ==
    /\ terminal' = updateCursor(Service, Win, insert, terminal)
    /\ lastOp' = [op |-> "updateCursor", arg |-> Null]
    /\ UNCHANGED <<editorVars, written, windows, currentWindow, screenWidth,
                   screenHeight, styleVars, asyncVars, awaiting,
                   controllerVars, eventVars>>

NextCursor == SetCursor \/ UpdateCursor

SpecCursor == InitCursor /\ [][NextCursor]_vars

----------------------------------------------------------------------------
(* NanorcService: highlighting one line with the rules cached for its     *)
(* file.  A compiled rule is a pair of a regular expression and a colour; *)
(* an expression is a literal text, or one character under a star.  A     *)
(* match is a record of start, end (exclusive), text and color.           *)

MaxLineLen == 3     \* a line over the alphabet has at most this many characters
MaxRules == 3       \* the file has at most this many rules cached

Alphabet == {"a", "b"}

\* the lines styled: every line over the alphabet, and the line "abcdef"
StyleLines ==
    UNION {[1..n -> Alphabet] : n \in 0..MaxLineLen}
        \cup { <<"a", "b", "c", "d", "e", "f">> }

\* new RegExp(source, 'g') for the text source, and for source followed by *
Literal(source) == [source |-> source, star |-> FALSE]
Star(source) == [source |-> source, star |-> TRUE]

\* the rules a file can have: texts that are prefixes and suffixes of one
\* another, one text in two colours, a bright colour, and an expression that
\* matches the empty string
Rules == { <<Literal(<<"b">>), "brightblue">>,
           <<Literal(<<"a", "b">>), "red">>,
           <<Literal(<<"a", "b">>), "blue">>,
           <<Literal(<<"b", "a">>), "blue">>,
           <<Literal(<<"a", "b", "c">>), "red">>,
           <<Literal(<<"a", "b", "c", "d", "e", "f">>), "blue">>,
           <<Star(<<"a">>), "red">> }

\* the rule lists a file can have cached; << >> stands for null, the entry of
\* a file no rules match (a cached list is never empty)
RuleLists == UNION {[1..n -> Rules] : n \in 0..MaxRules}

colorMap ==
    [c \in {"brightwhite", "brightcyan", "brightblue", "brightred",
            "brightgreen", "brightyellow", "brightmagenta", "brightblack"} |->
        CASE c = "brightwhite" -> "white"
          [] c = "brightcyan" -> "cyan"
          [] c = "brightblue" -> "blue"
          [] c = "brightred" -> "red"
          [] c = "brightgreen" -> "green"
          [] c = "brightyellow" -> "yellow"
          [] c = "brightmagenta" -> "magenta"
          [] c = "brightblack" -> "black"]

_mapColorToCompatible(color) ==
    IF color \in DOMAIN colorMap THEN colorMap[color] ELSE color

\* new RegExp('\\b\\w+\\b', 'g'): a whole word
Word == [source |-> <<"\\", "b", "\\", "w", "+", "\\", "b">>, star |-> FALSE]

\* the characters \w does not match, among the characters of the model
NonWord == {"\\", "*", "+", "(", ")", "|", ".", "$", "<", ">"}
IsWord(c) == c \notin NonWord

\* the length of the match of regex in line at index i, -1 when there is none
MatchAt(regex, line, i) ==
    IF regex = Word
    THEN IF /\ i < Len(line)
            /\ IsWord(line[i + 1])
            /\ i > 0 => ~IsWord(line[i])
         THEN CHOOSE n \in 1..(Len(line) - i) :
                  /\ \A k \in 1..n : IsWord(line[i + k])
                  /\ n < Len(line) - i => ~IsWord(line[i + n + 1])
         ELSE -1
    ELSE IF regex.star
    THEN CHOOSE n \in 0..(Len(line) - i) :
             /\ \A k \in 1..n : line[i + k] = regex.source[1]
             /\ n < Len(line) - i => line[i + n + 1] # regex.source[1]
    ELSE IF /\ i + Len(regex.source) <= Len(line)
            /\ \A k \in 1..Len(regex.source) : line[i + k] = regex.source[k]
         THEN Len(regex.source)
         ELSE -1

NoMatch == [index |-> -1, length |-> 0]

\* RegExp.prototype.exec of a global expression: the first match at or after
\* lastIndex, null when there is none
exec(regex, line, lastIndex) ==
    LET found == {i \in lastIndex..Len(line) : MatchAt(regex, line, i) >= 0}
    IN  IF found = {} THEN NoMatch
        ELSE LET index == CHOOSE i \in found : \A j \in found : i <= j
             IN  [index |-> index, length |-> MatchAt(regex, line, index)]

\* the loop over the matches of one rule, from lastIndex on: a match of length
\* zero takes the loop's continue with lastIndex where it was, and the same
\* match is found again for ever
RECURSIVE matchLoop(_, _, _, _)
matchLoop(regex, color, line, lastIndex) ==
    LET match == exec(regex, line, lastIndex)
    IN  IF match.index = -1 THEN [matches |-> << >>, hung |-> FALSE]
        ELSE IF match.length = 0 THEN [matches |-> << >>, hung |-> TRUE]
        ELSE LET rest == matchLoop(regex, color, line,
                                   match.index + match.length)
             IN  [matches |->
                      << [start |-> match.index,
                          end   |-> match.index + match.length,
                          text  |-> SubSeq(line, match.index + 1,
                                           match.index + match.length),
                          color |-> color] >> \o rest.matches,
                  hung |-> rest.hung]

\* the loop over the rules: the matches of every rule, in rule order
RECURSIVE findMatches(_, _)
findMatches(rules, line) ==
    IF rules = << >> THEN [matches |-> << >>, hung |-> FALSE]
    ELSE LET first == matchLoop(Head(rules)[1],
                                _mapColorToCompatible(Head(rules)[2]), line, 0)
         IN  IF first.hung THEN first
             ELSE LET rest == findMatches(Tail(rules), line)
                  IN  [matches |-> first.matches \o rest.matches,
                       hung |-> rest.hung]

\* the comparator without the tie-break on length
compareByStart(a, b) == a.start - b.start

\* the comparator of the sort: by start, then the longer match first
compare(a, b) ==
    IF a.start # b.start THEN a.start - b.start
    ELSE (b.end - b.start) - (a.end - a.start)

\* Array.prototype.sort with compare, which is stable: each element goes
\* after the elements already placed that do not compare greater
RECURSIVE sort(_)
sort(ms) ==
    IF ms = << >> THEN << >>
    ELSE LET sorted == sort(SubSeq(ms, 1, Len(ms) - 1))
             m      == ms[Len(ms)]
             before == Cardinality({k \in 1..Len(sorted) :
                                        compare(sorted[k], m) <= 0})
         IN  SubSeq(sorted, 1, before) \o <<m>>
                 \o SubSeq(sorted, before + 1, Len(sorted))

\* no match overlaps a range
overlapsNever(match, range) == FALSE

\* the overlap test taking spans that only touch for overlapping
overlapsTouching(match, range) ==
    match.start <= range.end /\ match.end >= range.start

\* the overlap test of a match against a used range
overlaps(match, range) == match.start < range.end /\ match.end > range.start

\* the loop that accepts a match when it overlaps no match accepted before it
RECURSIVE resolveOverlaps(_, _)
resolveOverlaps(ms, usedRanges) ==
    IF ms = << >> THEN usedRanges
    ELSE IF \E k \in 1..Len(usedRanges) : overlaps(Head(ms), usedRanges[k])
         THEN resolveOverlaps(Tail(ms), usedRanges)
         ELSE resolveOverlaps(Tail(ms), Append(usedRanges, Head(ms)))

\* the tags {color-fg} and {/color-fg}, each one character of the styled line
OpenTag(color) ==
    CASE color = "red" -> "{red-fg}"
      [] color = "blue" -> "{blue-fg}"
      [] OTHER -> "{brightblue-fg}"

CloseTag(color) ==
    CASE color = "red" -> "{/red-fg}"
      [] color = "blue" -> "{/blue-fg}"
      [] OTHER -> "{/brightblue-fg}"

\* the accepted matches left in acceptance order, from the least start on
sortAscending(ms) == ms

\* nonOverlappingMatches.sort((a, b) => b.start - a.start): the accepted
\* matches have distinct starts, so from the greatest start to the least
RECURSIVE sortDescending(_)
sortDescending(ms) ==
    IF ms = << >> THEN << >>
    ELSE LET k == CHOOSE i \in 1..Len(ms) :
                      \A j \in 1..Len(ms) :
                          \/ ms[j].start < ms[i].start
                          \/ (ms[j].start = ms[i].start /\ i <= j)
         IN  <<ms[k]>> \o sortDescending(SubSeq(ms, 1, k - 1)
                                             \o SubSeq(ms, k + 1, Len(ms)))

\* the forEach that wraps each accepted match of styled in its tags
RECURSIVE applyMatches(_, _)
applyMatches(styled, ms) ==
    IF ms = << >> THEN styled
    ELSE LET match   == Head(ms)
             before  == SubSeq(styled, 1, match.start)
             after   == SubSeq(styled, match.end + 1, Len(styled))
             colored == <<OpenTag(match.color)>> \o match.text
                            \o <<CloseTag(match.color)>>
         IN  applyMatches(before \o colored \o after, Tail(ms))

\* style(line, filename) with rules cached for the file: the candidates once
\* sorted, the accepted matches in acceptance order, and the line returned
style(line, rules) ==
    IF rules = << >>
    THEN [hung |-> FALSE, matches |-> << >>, nonOverlappingMatches |-> << >>,
          styledLine |-> line]
    ELSE LET found == findMatches(rules, line)
         IN  IF found.hung
             THEN [hung |-> TRUE, matches |-> << >>,
                   nonOverlappingMatches |-> << >>, styledLine |-> << >>]
             ELSE IF found.matches = << >>
             THEN [hung |-> FALSE, matches |-> << >>,
                   nonOverlappingMatches |-> << >>, styledLine |-> line]
             ELSE LET sorted   == sort(found.matches)
                      accepted == resolveOverlaps(sorted, << >>)
                  IN  [hung |-> FALSE, matches |-> sorted,
                       nonOverlappingMatches |-> accepted,
                       styledLine |->
                           applyMatches(line, sortDescending(accepted))]

----------------------------------------------------------------------------
(* The highlight service as a state machine *)

\* the rules of the file are cached, and no line has been styled
InitStyle ==
    /\ NoEditor
    /\ written = NoCall
    /\ NoService
    /\ NoAsync
    /\ NoApp
    /\ patterns \in RuleLists
    /\ lineArg = << >>
    /\ matches = << >>
    /\ nonOverlappingMatches = << >>
    /\ styledLine = << >>
    /\ status = "idle"
    /\ NoLoad

\* style is called with a line; a call that hangs never returns, and no call
\* follows it
Style ==
    /\ status # "hung"
    /\ \E line \in StyleLines :
           \E r \in {style(line, patterns)} :
               /\ lineArg' = line
               /\ matches' = r.matches
               /\ nonOverlappingMatches' = r.nonOverlappingMatches
               /\ styledLine' = r.styledLine
               /\ status' = IF r.hung THEN "hung" ELSE "styled"
               /\ UNCHANGED <<patterns, nanorcDir, initialized, loadedRules,
                              cachedPatterns, styledFile, resolution,
                              editorVars, written, serviceVars,
                              asyncVars, appVars>>

NextStyle == Style

SpecStyle == InitStyle /\ [][NextStyle]_vars

----------------------------------------------------------------------------
(* NanorcService: from the .nanorc files to the rules cached for a file.   *)
(* A pattern is a string of characters as everywhere; the backslash is the *)
(* character "\\".  The patterns of the model hold no white space, no      *)
(* bracket, no question mark and no closing parenthesis.                   *)

\* s has the text sub at the 0-based position i
HasAt(s, sub, i) ==
    /\ i + Len(sub) <= Len(s)
    /\ \A k \in 1..Len(sub) : s[i + k] = sub[k]

\* String.prototype.includes, endsWith
includes(s, sub) == \E i \in 0..Len(s) : HasAt(s, sub, i)
endsWith(s, suffix) ==
    Len(suffix) <= Len(s) /\ HasAt(s, suffix, Len(s) - Len(suffix))

\* s.replace(/from/g, to) for a text from: the occurrences are replaced from
\* left to right, and what a replacement puts in is not looked at again
RECURSIVE replaceAll(_, _, _)
replaceAll(s, from, to) ==
    IF s = << >> THEN << >>
    ELSE IF HasAt(s, from, 0)
    THEN to \o replaceAll(SubSeq(s, Len(from) + 1, Len(s)), from, to)
    ELSE <<s[1]>> \o replaceAll(Tail(s), from, to)

\* s.replace(/[chars]/g, '\\$&'): a backslash is put before every character
\* of the set
RECURSIVE escapeChars(_, _)
escapeChars(s, chars) ==
    IF s = << >> THEN << >>
    ELSE (IF s[1] \in chars THEN <<"\\", s[1]>> ELSE <<s[1]>>)
             \o escapeChars(Tail(s), chars)

\* new RegExp(p) does not throw, for p from position i (1-based) on; atom
\* tells that what stands before can take a quantifier.  A backslash needs
\* a character after it, \b is an assertion and takes no quantifier, a
\* quantifier needs an atom before it, and a group that is opened is never
\* closed in the patterns of the model
RECURSIVE validFrom(_, _, _)
validFrom(p, i, atom) ==
    IF i > Len(p) THEN TRUE
    ELSE CASE p[i] = "\\" ->
                  i < Len(p) /\ validFrom(p, i + 2, p[i + 1] # "b")
           [] p[i] \in {"*", "+"} -> atom /\ validFrom(p, i + 1, FALSE)
           [] p[i] \in {"(", ")"} -> FALSE
           [] p[i] = "|" -> validFrom(p, i + 1, FALSE)
           [] OTHER -> validFrom(p, i + 1, TRUE)

ValidRegExp(p) == validFrom(p, 1, FALSE)

\* '\\b\\w+\\b', the pattern _convertNanorcRegex falls back to
WordPattern == Word.source

\* the characters of the test for a pattern made of symbols only
SymbolChars == {";", "{", "}", "[", "]", "(", ")", "=", ":", ",", ".", "<",
                ">", "+", "-", "*", "/", "%", "&", "|", "^", "!", "~", "?"}

\* pattern.replace(/\\\W/g, ''): a backslash and the non-word character
\* after it are removed
RECURSIVE removeEscapedNonWord(_)
removeEscapedNonWord(s) ==
    IF s = << >> THEN << >>
    ELSE IF Len(s) >= 2 /\ s[1] = "\\" /\ ~IsWord(s[2])
    THEN removeEscapedNonWord(SubSeq(s, 3, Len(s)))
    ELSE <<s[1]>> \o removeEscapedNonWord(Tail(s))

\* pattern.replace(/\|.*$/g, ''): everything from the first pipe on is
\* removed
removeFromPipe(s) ==
    IF \E i \in 1..Len(s) : s[i] = "|"
    THEN SubSeq(s, 1, (CHOOSE i \in 1..Len(s) :
                           /\ s[i] = "|"
                           /\ \A j \in 1..(i - 1) : s[j] # "|") - 1)
    ELSE s

\* s without its last character when that is a backslash
dropTrailingBackslash(s) ==
    IF s # << >> /\ s[Len(s)] = "\\" THEN SubSeq(s, 1, Len(s) - 1) ELSE s

\* _convertNanorcRegex up to its validation: the POSIX classes and the word
\* anchors are rewritten, a trailing backslash is removed, and once more
\* after the escapes (which replace every text by itself)
rewritten(pattern) ==
    LET posix == replaceAll(replaceAll(replaceAll(replaceAll(pattern,
                     <<"[", "[", ":", "s", "p", "a", "c", "e", ":", "]", "]">>,
                     <<"\\", "s">>),
                     <<"[", "[", ":", "a", "l", "p", "h", "a", ":", "]", "]">>,
                     <<"[", "A", "-", "Z", "a", "-", "z", "]">>),
                     <<"[", "[", ":", "a", "l", "n", "u", "m", ":", "]", "]">>,
                     <<"[", "A", "-", "Z", "a", "-", "z", "0", "-", "9", "]">>),
                     <<"[", "[", ":", "d", "i", "g", "i", "t", ":", "]", "]">>,
                     <<"\\", "d">>)
        anchors == replaceAll(replaceAll(posix, <<"\\", "<">>, <<"\\", "b">>),
                              <<"\\", ">">>, <<"\\", "b">>)
        fixed == replaceAll(
                     dropTrailingBackslash(
                         replaceAll(anchors, <<".", "*", "+">>, <<".", "*">>)),
                     <<"|", ")">>, <<")">>)
    IN  dropTrailingBackslash(fixed)

\* _convertNanorcRegex: the JavaScript pattern for a nanorc pattern.  A
\* pattern of symbols only is escaped and returned as it is; one that is
\* not valid after rewriting is simplified, and replaced by the word
\* pattern when nothing is left of it or it is still not valid
_convertNanorcRegex(pattern) ==
    LET jsPattern == rewritten(pattern)
        simplifiedPattern == removeFromPipe(removeEscapedNonWord(pattern))
    IN  IF pattern # << >> /\ \A i \in 1..Len(pattern) :
                                  pattern[i] \in SymbolChars
        THEN escapeChars(pattern, {"(", ")", "{", "}", "[", "]", ".", "+",
                                   "*", "?", "^", "$", "\\"})
        ELSE IF ValidRegExp(jsPattern) THEN jsPattern
        ELSE IF simplifiedPattern = << >> THEN WordPattern
        ELSE IF ValidRegExp(simplifiedPattern) THEN simplifiedPattern
        ELSE WordPattern

----------------------------------------------------------------------------
(* The rules loaded and the rules of a file.  loadedRules is a Map from a  *)
(* file pattern to its rules, kept as the sequence of its entries in       *)
(* insertion order; a rule is a pair of a JavaScript pattern and a colour. *)
(* A .nanorc file is the sequence of its syntax and color lines, each      *)
(* taken apart as the line expressions of _parseNanorc do.  Of the default *)
(* JavaScript rules only the number, colours and validity are kept.        *)

SyntaxLine(pattern) == [kind |-> "syntax", pattern |-> pattern, color |-> ""]
ColorLine(color, regex) ==
    [kind |-> "color", pattern |-> regex, color |-> color]

\* Map.prototype.has, get and set: set leaves an existing key in its place
mapHas(m, key) == \E i \in 1..Len(m) : m[i].pattern = key
mapSet(m, key, rules) ==
    IF mapHas(m, key)
    THEN [i \in 1..Len(m) |->
             IF m[i].pattern = key THEN [pattern |-> key, rules |-> rules]
                                   ELSE m[i]]
    ELSE Append(m, [pattern |-> key, rules |-> rules])

\* '\\.js$' and '\\.(js|jsx)$'
JsKey == <<"\\", ".", "j", "s", "$">>
DefaultJsKey == <<"\\", ".", "(", "j", "s", "|", "j", "s", "x", ")", "$">>

\* the default rules, each under a name that stands for its expression
defaultRules ==
    << <<<<"keywords">>, "yellow">>, <<<<"builtins">>, "cyan">>,
       <<<<"booleans">>, "brightcyan">>, <<<<"doublequoted">>, "green">>,
       <<<<"singlequoted">>, "green">>, <<<<"backquoted">>, "green">>,
       <<<<"integers">>, "magenta">>, <<<<"decimals">>, "magenta">>,
       <<<<"hexadecimals">>, "magenta">>, <<<<"linecomments">>, "blue">>,
       <<<<"blockcomments">>, "blue">>, <<<<"punctuation">>, "red">>,
       <<<<"properties">>, "brightwhite">>, <<<<"identifiers">>, "white">> >>

_addDefaultJavaScriptRules(m) == mapSet(m, DefaultJsKey, defaultRules)

\* one line of _parseNanorc's loop; << >> stands for the null of
\* currentFilePattern, and a rule whose conversion is empty is left out
parseLine(st, line) ==
    IF line.kind = "syntax"
    THEN [loadedRules |->
              IF st.currentFilePattern # << >>
              THEN mapSet(st.loadedRules, st.currentFilePattern,
                          st.currentRules)
              ELSE st.loadedRules,
          currentFilePattern |-> line.pattern,
          currentRules |-> << >>]
    ELSE IF st.currentFilePattern = << >> THEN st
    ELSE TheOne({IF jsRegex # << >>
                 THEN [st EXCEPT !.currentRules =
                                     Append(@, <<jsRegex, line.color>>)]
                 ELSE st
                 : jsRegex \in {_convertNanorcRegex(line.pattern)}})

RECURSIVE parseLines(_, _, _)
parseLines(lines, i, st) ==
    IF i > Len(lines) THEN st
    ELSE TheOne({parseLines(lines, i + 1, after)
                 : after \in {parseLine(st, lines[i])}})

\* _parseNanorc: the rules of the file's syntaxes are added to the Map, and
\* the default rules when it then has no JavaScript key
_parseNanorc(m, content) ==
    TheOne({TheOne({IF ~mapHas(saved, JsKey) /\ ~mapHas(saved, DefaultJsKey)
                    THEN _addDefaultJavaScriptRules(saved)
                    ELSE saved
                    : saved \in {IF st.currentFilePattern # << >>
                                 THEN mapSet(st.loadedRules,
                                             st.currentFilePattern,
                                             st.currentRules)
                                 ELSE st.loadedRules}})
            : st \in {parseLines(content, 1,
                                 [loadedRules |-> m,
                                  currentFilePattern |-> << >>,
                                  currentRules |-> << >>])}})

\* _loadAllRules: every .nanorc file of the directory is parsed
RECURSIVE _loadAllRules(_, _)
_loadAllRules(m, files) ==
    IF files = << >> THEN m
    ELSE TheOne({_loadAllRules(parsed, Tail(files))
                 : parsed \in {_parseNanorc(m, files[1])}})

\* String.prototype.toLowerCase over the letters of the file names
toLowerCase(s) ==
    [i \in 1..Len(s) |-> CASE s[i] = "J" -> "j"
                           [] s[i] = "S" -> "s"
                           [] s[i] = "X" -> "x"
                           [] OTHER -> s[i]]

\* path.extname of a name without directories: from its last dot on, and
\* empty when it has none or only starts with one
extname(filename) ==
    LET dots == {i \in 2..Len(filename) : filename[i] = "."}
    IN  IF dots = {} THEN << >>
        ELSE SubSeq(filename, CHOOSE i \in dots : \A j \in dots : j <= i,
                    Len(filename))

\* the texts _matchesFilePattern replaces after it has escaped the pattern,
\* in its order
FileEscapes ==
    << <<<<"\\", "\\", ".">>, <<"\\", ".">>>>,
       <<<<"\\", "\\", "*">>, <<".", "*">>>>,
       <<<<"\\", "\\", "?">>, <<".">>>>,
       <<<<"\\", "\\", "[">>, <<"[">>>>,
       <<<<"\\", "\\", "]">>, <<"]">>>>,
       <<<<"\\", "\\", "(">>, <<"(">>>>,
       <<<<"\\", "\\", ")">>, <<")">>>>,
       <<<<"\\", "\\", "{">>, <<"{">>>>,
       <<<<"\\", "\\", "}">>, <<"}">>>>,
       <<<<"\\", "\\", "+">>, <<"+">>>>,
       <<<<"\\", "\\", "|">>, <<"|">>>>,
       <<<<"\\", "\\", "^">>, <<"^">>>>,
       <<<<"\\", "\\", "$">>, <<"$">>>> >>

RECURSIVE replaceEach(_, _, _)
replaceEach(s, pairs, i) ==
    IF i > Len(pairs) THEN s
    ELSE TheOne({replaceEach(t, pairs, i + 1)
                 : t \in {replaceAll(s, pairs[i][1], pairs[i][2])}})

\* the expression _matchesFilePattern builds from a file pattern
regexPatternOf(pattern) ==
    replaceEach(escapeChars(pattern, {"[", "]", "{", "}", "(", ")", "*", "+",
                                      "?", ".", ",", "\\", "^", "$", "|",
                                      "#"}),
                FileEscapes, 1)

\* the expression taken apart: a backslash with the character after it
\* stands for that character, a dot for any character
RECURSIVE tokens(_)
tokens(p) ==
    IF p = << >> THEN << >>
    ELSE IF p[1] = "\\"
    THEN <<[any |-> FALSE, char |-> p[2]]>> \o tokens(SubSeq(p, 3, Len(p)))
    ELSE IF p[1] = "."
    THEN <<[any |-> TRUE, char |-> "."]>> \o tokens(Tail(p))
    ELSE <<[any |-> FALSE, char |-> p[1]]>> \o tokens(Tail(p))

\* regex.test(basename) for an expression of characters and dots: it is
\* found somewhere in the name
test(p, basename) ==
    LET ts == tokens(p)
    IN  \E i \in 0..(Len(basename) - Len(ts)) :
            \A k \in 1..Len(ts) :
                ts[k].any \/ ts[k].char = basename[i + k]

\* _matchesFilePattern for a name without directories.  The expression of
\* a pattern of the model is one test can run.
_matchesFilePattern(filename, pattern) ==
    IF /\ pattern = DefaultJsKey
       /\ \/ endsWith(filename, <<".", "j", "s">>)
          \/ endsWith(filename, <<".", "j", "s", "x">>)
    THEN TRUE
    ELSE IF /\ pattern = <<"\\", ".", "(", "t", "s", ")", "$">>
            /\ endsWith(filename, <<".", "t", "s">>)
    THEN TRUE
    ELSE TheOne({IF /\ includes(regexPattern, <<"\\", ".", "j", "s">>)
                    /\ endsWith(filename, <<".", "j", "s">>)
                 THEN TRUE
                 ELSE IF ~ValidRegExp(regexPattern)
                 THEN /\ includes(pattern, <<".", "j", "s">>)
                      /\ endsWith(filename, <<".", "j", "s">>)
                 ELSE test(regexPattern, filename)
                 : regexPattern \in {regexPatternOf(pattern)}})

\* the rules of an entry for which new RegExp(regex, 'g') does not throw
compiled(rules) == SelectSeq(rules, LAMBDA rule : ValidRegExp(rule[1]))

\* the first entry of the Map, at or after i, that the test picks and whose
\* rules compile to a list that is not empty; 0 when there is none
firstUsable(m, picked(_), i) ==
    LET usable == {k \in i..Len(m) :
                       picked(m[k].pattern) /\ compiled(m[k].rules) # << >>}
    IN  IF usable = {} THEN 0
        ELSE CHOOSE k \in usable : \A j \in usable : k <= j

\* Map.prototype.set on cachedPatterns, a function from file names
cacheSet(cache, filename, entry) ==
    [f \in DOMAIN cache \cup {filename} |->
        IF f = filename THEN entry ELSE cache[f]]

\* _loadRulesForFile once the rules are loaded, called with depth frames
\* on the call stack: the Map and the cache it leaves, and whether it threw.
\* << >> stands for the null entry.  With no entry picked for a .js or .jsx
\* name the default rules are added and the method calls itself; the call
\* that does not fit on the stack throws a RangeError, which every caller's
\* catch answers by caching null and throwing it on
RECURSIVE _loadRulesForFile(_, _, _, _)
_loadRulesForFile(m, cache, filename, depth) ==
    LET Matches(pattern) == _matchesFilePattern(filename, pattern)
        Named(pattern) ==
            \/ includes(pattern, <<".", "j", "s">>)
            \/ includes(pattern, <<"J", "a", "v", "a", "S", "c", "r", "i",
                                   "p", "t">>)
        found == firstUsable(m, Matches, 1)
        matched == \E k \in 1..Len(m) : Matches(m[k].pattern)
        ext == toLowerCase(extname(filename))
        named == firstUsable(m, Named, 1)
    IN  IF depth > MaxStack
        THEN [loadedRules |-> m,
              cachedPatterns |-> cacheSet(cache, filename, << >>),
              threw |-> TRUE]
        ELSE IF found # 0
        THEN [loadedRules |-> m,
              cachedPatterns |->
                  cacheSet(cache, filename, compiled(m[found].rules)),
              threw |-> FALSE]
        ELSE IF ~matched /\ ext \in {<<".", "j", "s">>,
                                     <<".", "j", "s", "x">>}
        THEN IF named # 0
             THEN [loadedRules |-> m,
                   cachedPatterns |->
                       cacheSet(cache, filename, compiled(m[named].rules)),
                   threw |-> FALSE]
             ELSE TheOne({IF r.threw
                          THEN [r EXCEPT !.cachedPatterns =
                                    cacheSet(@, filename, << >>)]
                          ELSE r
                          : r \in {_loadRulesForFile(
                                       _addDefaultJavaScriptRules(m), cache,
                                       filename, depth + 1)}})
        ELSE [loadedRules |-> m,
              cachedPatterns |-> cacheSet(cache, filename, << >>),
              threw |-> FALSE]

----------------------------------------------------------------------------
(* The loading of rules as a state machine: the rules are loaded once, the *)
(* first style call for a file looks for the file's rules, and the calls   *)
(* after it match lines against the rules cached.  The call that looks for *)
(* the rules is followed up to the point where _loadRulesForFile settles;  *)
(* the matching is followed for the rules that come from .nanorc files.    *)

MaxColorLines == 2  \* a .nanorc file has at most this many color lines

\* the patterns of the color lines: two that convert as they are, three
\* that new RegExp rejects, and a lone backslash
NanorcPatterns == { <<"a", "b">>, <<"b">>, <<"(", "a", "b">>,
                    <<"a", "*", "|", "(">>, <<"a", "b", "|", "(">>,
                    <<"\\">> }

\* the directories: an empty one, and the ones of one file with one syntax
\* for .js or for .txt files
NanorcDirs ==
    { << >> } \cup
    { << <<SyntaxLine(key)>> \o colorLines >> :
          key \in {JsKey, <<"\\", ".", "t", "x", "t", "$">>},
          colorLines \in UNION {
              [1..n -> {ColorLine(color, regex) :
                            color \in {"red", "blue"},
                            regex \in NanorcPatterns}]
              : n \in 0..MaxColorLines} }

\* the names of the files styled
Filenames == { <<"a", ".", "j", "s">>, <<"a", ".", "J", "S">>,
               <<"a", ".", "t", "x", "t">> }

\* the lines styled with the rules of a file
LoadedLines == { << >>, <<"a", "b">>, <<"b", "a", "b">> }

\* the pattern is a text, with its symbols escaped
IsText(js) ==
    /\ js # << >>
    /\ js # WordPattern
    /\ \A i \in 1..Len(js) :
           \/ IsWord(js[i]) /\ (i > 1 => js[i - 1] # "\\")
           \/ js[i] = "\\" /\ i < Len(js) /\ js[i + 1] \notin {"\\", "b", "w"}
                           /\ ~IsWord(js[i + 1])
           \/ ~IsWord(js[i]) /\ js[i] # "\\" /\ i > 1 /\ js[i - 1] = "\\"

\* the pattern is a word character under a star
IsStar(js) == Len(js) = 2 /\ IsWord(js[1]) /\ js[2] = "*"

\* the pattern is the expression of a default rule
IsDefault(js) == \E i \in 1..Len(defaultRules) : defaultRules[i][1] = js

\* the expression new RegExp(js, 'g') gives is one the matching follows
Representable(js) ==
    ~IsDefault(js) /\ (js = WordPattern \/ IsStar(js) \/ IsText(js))

\* new RegExp(js, 'g'), for such a pattern
RegExpOf(js) ==
    CASE js = WordPattern -> Word
      [] IsStar(js) -> Star(<<js[1]>>)
      [] IsText(js) -> Literal(SelectSeq(js, LAMBDA c : c # "\\"))

InitLoad ==
    /\ NoEditor
    /\ written = NoCall
    /\ NoService
    /\ NoAsync
    /\ NoApp
    /\ nanorcDir \in NanorcDirs
    /\ initialized = FALSE
    /\ loadedRules = << >>
    /\ cachedPatterns = << >>
    /\ styledFile = << >>
    /\ resolution = "idle"
    /\ patterns = << >>
    /\ lineArg = << >>
    /\ matches = << >>
    /\ nonOverlappingMatches = << >>
    /\ styledLine = << >>
    /\ status = "idle"

\* the _loadAllRules call the constructor starts has read the directory
LoadAllRules ==
    /\ ~initialized
    /\ initialized' = TRUE
    /\ loadedRules' = _loadAllRules(loadedRules, nanorcDir)
    /\ UNCHANGED <<nanorcDir, cachedPatterns, styledFile, resolution,
                   patterns, lineArg, matches, nonOverlappingMatches,
                   styledLine, status, editorVars, written, serviceVars,
                   asyncVars, appVars>>

\* style is called for a file without an entry in the cache: it awaits
\* _loadRulesForFile
LoadRulesForFile ==
    /\ initialized
    /\ status # "hung"
    /\ \E filename \in Filenames \ DOMAIN cachedPatterns :
       \E r \in {_loadRulesForFile(loadedRules, cachedPatterns, filename,
                                   1)} :
           /\ styledFile' = filename
           /\ loadedRules' = r.loadedRules
           /\ cachedPatterns' = r.cachedPatterns
           /\ resolution' = IF r.threw THEN "overflow" ELSE "returned"
    /\ UNCHANGED <<nanorcDir, initialized, patterns, lineArg, matches,
                   nonOverlappingMatches, styledLine, status, editorVars,
                   written, serviceVars, asyncVars, appVars>>

\* style is called with a line of a file whose rules are cached: the line
\* is matched against them; a call that hangs never returns, and no call
\* follows it
StyleCached ==
    /\ status # "hung"
    /\ \E filename \in DOMAIN cachedPatterns :
           /\ \A i \in 1..Len(cachedPatterns[filename]) :
                  Representable(cachedPatterns[filename][i][1])
           /\ \E line \in LoadedLines :
              \E rules \in {[i \in 1..Len(cachedPatterns[filename]) |->
                                <<RegExpOf(cachedPatterns[filename][i][1]),
                                  cachedPatterns[filename][i][2]>>]} :
              \E r \in {style(line, rules)} :
                  /\ styledFile' = filename
                  /\ patterns' = rules
                  /\ lineArg' = line
                  /\ matches' = r.matches
                  /\ nonOverlappingMatches' = r.nonOverlappingMatches
                  /\ styledLine' = r.styledLine
                  /\ status' = IF r.hung THEN "hung" ELSE "styled"
    /\ UNCHANGED <<nanorcDir, initialized, loadedRules, cachedPatterns,
                   resolution, editorVars, written, serviceVars, asyncVars,
                   appVars>>

NextLoad == LoadAllRules \/ LoadRulesForFile \/ StyleCached

SpecLoad == InitLoad /\ [][NextLoad]_vars

----------------------------------------------------------------------------
(* The handlers bound to keys.  EventController.events holds the handlers  *)
(* added to the controller, and every edit pane holds its own events; a    *)
(* KeyEvent is a record of its binding and of what its callback does:      *)
(* "own" is the pane's handler registered for the binding, "toggle" the    *)
(* insert toggle of WindowService, and a handler added later returns,      *)
(* throws, or returns a promise that rejects.  A key event goes through    *)
(* EventController.press and from there to the focused pane's press.       *)

NewKeyEvent(binding, cb) == [binding |-> binding, callback |-> cb]

\* what the callback of a handler added through addEvent may do
AddedCallbacks == {"returns", "throws", "rejects"}

\* the binding a handler is added for
AddedBindings == {"insert"}

\* the events of an edit pane once constructed, in the order registered
_registerDefaultKeyEvents ==
    LET names == <<"backspace", "up", "down", "left", "right", "tab",
                   "delete", "enter", "pageup", "pagedown", "home", "end",
                   "C-v">>
    IN  [i \in 1..Len(names) |-> NewKeyEvent(names[i], "own")]

\* window.hasInsertEvent: addWindow has given the pane the insert toggle
hasInsertEvent(evs) ==
    \E i \in 1..Len(evs) : evs[i] = NewKeyEvent("insert", "toggle")

\* addWindow, as far as the events of the pane added go: the pane that
\* becomes the current one because there is none receives the insert toggle
addWindowEvents(S, evs) ==
    IF S.currentWindow = Null /\ ~hasInsertEvent(evs)
    THEN Append(evs, NewKeyEvent("insert", "toggle"))
    ELSE evs

\* event.callback(key, this): the pane, the insert mode, and whether the
\* call threw or its promise rejected
callEvent(ev, w, clip, ins, h) ==
    CASE ev.callback = "own" ->
             LET r == callback(ev.binding, w, clip, ins, h)
             IN  [w |-> r.w, insert |-> ins, threw |-> r.threw]
      [] ev.callback = "toggle" ->
             [w |-> w, insert |-> ~ins, threw |-> FALSE]
      [] ev.callback = "returns" ->
             [w |-> w, insert |-> ins, threw |-> FALSE]
      [] OTHER ->
             [w |-> w, insert |-> ins, threw |-> TRUE]

\* for (const event of this.events) if (event.binding === key.full) ...,
\* from the k-th event on: the handlers bound to the key are called in
\* order; left tells that an exception left the loop, which it does when
\* the call is not in a try
RECURSIVE eventLoopFrom(_, _, _, _, _, _, _)
eventLoopFrom(evs, key, clip, h, inTry, k, a) ==
    IF k > Len(evs) \/ a.left THEN a
    ELSE IF evs[k].binding # key.full
    THEN eventLoopFrom(evs, key, clip, h, inTry, k + 1, a)
    ELSE TheOne({eventLoopFrom(evs, key, clip, h, inTry, k + 1,
                     [w |-> r.w, insert |-> r.insert,
                      called |-> Append(a.called, k),
                      caught |-> a.caught \/ (r.threw /\ inTry),
                      left |-> r.threw /\ ~inTry])
                 : r \in {callEvent(evs[k], a.w, clip, a.insert, h)}})

eventLoop(evs, key, w, clip, ins, h, inTry) ==
    eventLoopFrom(evs, key, clip, h, inTry, 1,
                  [w |-> w, insert |-> ins, called |-> << >>,
                   caught |-> FALSE, left |-> FALSE])

\* the loop with the calls outside any try
handlersUncaught(evs, key, w, clip, ins, h) ==
    eventLoop(evs, key, w, clip, ins, h, FALSE)

\* the loop with each call awaited in try / catch, as both press methods
\* have it
handlers(evs, key, w, clip, ins, h) ==
    eventLoop(evs, key, w, clip, ins, h, TRUE)

\* EditWindow.press over the pane's events: a key none of them is bound to
\* is taken for character input
pressEvents(evs, w, key, clip, ins, h) ==
    IF ~IsKey(key)
    THEN [w |-> w, insert |-> ins, outcome |-> "ok", called |-> << >>]
    ELSE LET a == handlers(evs, key, w, clip, ins, h)
         IN  IF a.left
             THEN [w |-> a.w, insert |-> a.insert, outcome |-> "escaped",
                   called |-> a.called]
             ELSE IF a.called = << >> /\ key.sequence # << >>
             THEN LET r == writeText(w, key.sequence,
                                     w.cursorX + w.scrollOffsetX,
                                     w.cursorY + w.scrollOffsetY, ins)
                  IN  IF r.threw
                      THEN [w |-> r.w, insert |-> ins,
                            outcome |-> "escaped", called |-> << >>]
                      ELSE [w |-> [r.w EXCEPT !.cursorX = @ + 1],
                            insert |-> ins, outcome |-> "ok",
                            called |-> << >>]
             ELSE [w |-> a.w, insert |-> a.insert,
                   outcome |-> IF a.caught THEN "caught" ELSE "ok",
                   called |-> a.called]

----------------------------------------------------------------------------
(* The handlers as a state machine *)

MaxEvents == 2      \* at most this many handlers are added in all

\* the number of handlers added to a list through addEvent
AddedTo(evs) ==
    Cardinality({i \in 1..Len(evs) : evs[i].callback \in AddedCallbacks})

\* ... and to the controller and the panes together
Added ==
    LET sum[i \in 0..Len(paneEvents)] ==
            IF i = 0 THEN AddedTo(events)
            ELSE sum[i - 1] + AddedTo(paneEvents[i])
    IN  sum[Len(paneEvents)]

\* the key events that arrive, with the sequences the terminal sends
EventKeys == { [full |-> "insert", sequence |-> <<"ESC", "[", "2", "~">>],
               [full |-> "a", sequence |-> <<"a">>],
               [sequence |-> <<"a">>] }

\* a pane's file and cursor when the pane is new
NewBuffer == [fileData |-> << << >> >>, props |-> << >>,
              cursorX |-> 0, cursorY |-> 0,
              scrollOffsetX |-> 0, scrollOffsetY |-> 0]

\* the height of the focused pane's element
FocusedHeight == windows[IndexOf(windows, currentWindow)].element.height

\* the application once started, with the events its two panes have: the
\* constructor adds its pane while there is no current one, openFile adds
\* the second while the first is current
InitEvents ==
    /\ Started
    /\ events = << >>
    /\ \E S0 \in {[windows |-> << >>, currentWindow |-> Null]} :
       \E S1 \in {addWindow(S0, createEmptyWindow(1, TRUE, TRUE, TRUE, TRUE),
                            screenWidth, screenHeight)} :
           paneEvents = << addWindowEvents(S0, _registerDefaultKeyEvents),
                           addWindowEvents(S1, _registerDefaultKeyEvents) >>
    /\ buffers = << NewBuffer, NewBuffer >>
    /\ called = NoneCalled

\* EventController.addEvent
AddEvent ==
    /\ Added < MaxEvents
    /\ \E binding \in AddedBindings, cb \in AddedCallbacks :
           events' = Append(events, NewKeyEvent(binding, cb))
    /\ lastOp' = [op |-> "addEvent", arg |-> Null]
    /\ UNCHANGED <<editorVars, written, windows, currentWindow, screenWidth,
                   screenHeight, styleVars, asyncVars, awaiting,
                   controllerVars, paneEvents, buffers, called, terminal>>

\* EditWindow.addEvent of the focused pane
WindowAddEvent ==
    /\ Added < MaxEvents
    /\ \E binding \in AddedBindings, cb \in AddedCallbacks :
           paneEvents' = [paneEvents EXCEPT ![currentWindow] =
                              Append(@, NewKeyEvent(binding, cb))]
    /\ lastOp' = [op |-> "addEvent", arg |-> Null]
    /\ UNCHANGED <<editorVars, written, windows, currentWindow, screenWidth,
                   screenHeight, styleVars, asyncVars, awaiting,
                   controllerVars, events, buffers, called, terminal>>

\* a key event arrives: EventController.press calls the controller's
\* handlers bound to it, and then the focused pane's press when no modal
\* is up
KeyEventArrives ==
    /\ arrived < MaxKeys
    /\ arrived' = arrived + 1
    /\ \E key \in EventKeys :
       \E a \in {IF IsKey(key)
                 THEN handlers(events, key, buffers[currentWindow], << >>,
                               insert, FocusedHeight)
                 ELSE [insert |-> insert, called |-> << >>,
                       left |-> TRUE]} :
       \E p \in {IF a.left \/ modalActive
                 THEN [w |-> buffers[currentWindow], insert |-> a.insert,
                       outcome |-> IF IsKey(key) /\ a.left THEN "escaped"
                                                           ELSE "ok",
                       called |-> << >>]
                 ELSE pressEvents(paneEvents[currentWindow],
                                  buffers[currentWindow], key, << >>,
                                  a.insert, FocusedHeight)} :
           /\ buffers' = [buffers EXCEPT ![currentWindow] = p.w]
           /\ insert' = p.insert
           /\ outcome' = p.outcome
           /\ called' = [controller |-> a.called, pane |-> p.called]
           /\ forwarded' = IF a.left \/ modalActive THEN Null
                                                    ELSE currentWindow
           /\ lastKey' = FullOf(key)
    /\ lastOp' = [op |-> "press", arg |-> Null]
    /\ UNCHANGED <<fileData, props, cursorX, cursorY, scrollOffsetX,
                   scrollOffsetY, elementHeight, written, windows,
                   currentWindow, screenWidth, screenHeight, styleVars,
                   pending, sequential, awaiting, modalActive, modal, noFile,
                   redrawn, events, paneEvents, terminal>>

NextEvents ==
    AddEvent \/ WindowAddEvent \/ KeyEventArrives \/ AltTab \/ OpenFileItem
        \/ ModalCancel

SpecEvents == InitEvents /\ [][NextEvents]_vars

----------------------------------------------------------------------------
(* Claims *)

\* the names of the keys the model presses
KeyNames == Bindings \cup {key.full : key \in LiteralKeys}

\* the state is the one a key event has just left
AfterKey == lastKey \in KeyNames

\* the height of the viewport
viewportHeight == _getContentHeight(elementHeight)

\* row r holds a line
IsLine(fd, r) == r >= 0 /\ r < Len(fd) /\ fd[r + 1] # Undefined

\* the cursor is on a line of the buffer and within it
CursorOnLine ==
    /\ IsLine(fileData, cursorY)
    /\ 0 <= cursorX /\ cursorX <= Len(fileData[cursorY + 1])

\* C1: in every state reachable from a buffer with at least one line by key
\* events, the buffer's line array has length >= 1.
C1_LinesNeverEmpty == Len(fileData) >= 1

\* C2: after every key event the cursor satisfies 0 <= row < lines.length and
\* 0 <= column <= len(lines[row]).
C2_CursorInsideBuffer == AfterKey => CursorOnLine

\* C3: after every key event, whenever lineCount >= viewportHeight the cursor
\* row is inside the viewport: scrollRow <= row < scrollRow + viewportHeight.
C3_CursorInsideViewport ==
    AfterKey /\ Len(fileData) >= viewportHeight =>
        /\ scrollOffsetY <= cursorY
        /\ cursorY < scrollOffsetY + viewportHeight

\* C4: after every pageup or pagedown scrollRow lies in
\* [0, max(0, lineCount - viewportHeight)].
C4_PageScrollInRange ==
    lastKey \in {"pageup", "pagedown"} =>
        /\ 0 <= scrollOffsetY
        /\ scrollOffsetY <= Max(0, Len(fileData) - viewportHeight)

\* the buffer after enter and then backspace, pressed in the state w
EnterThenBackspace(w, ins, h) ==
    LET e == press(w, Bound("enter"), << >>, ins, h).w
    IN  press(e, Bound("backspace"), << >>, ins, h).w.fileData

\* the buffer after enter, then up and end (the cursor goes to the end of
\* the line that was split), then delete, pressed in the state w
EnterThenDelete(w, ins, h) ==
    LET e == press(w, Bound("enter"), << >>, ins, h).w
        u == press(e, Bound("up"), << >>, ins, h).w
        n == press(u, Bound("end"), << >>, ins, h).w
    IN  press(n, Bound("delete"), << >>, ins, h).w.fileData

\* C5: with the cursor at (row, c), 0 <= c <= len(lines[row]), splitting the
\* line with enter and joining it again, with backspace at (row+1, 0) or with
\* delete at the end of line row, yields the original buffer.
C5_SplitJoinRoundTrip ==
    CursorOnLine =>
        /\ EnterThenBackspace(Win, insert, elementHeight) = fileData
        /\ EnterThenDelete(Win, insert, elementHeight) = fileData

\* the lines of fd other than those at rows r .. r + n - 1 (0-based)
Others(fd, r, n) == SubSeq(fd, 1, r) \o SubSeq(fd, r + n + 1, Len(fd))

\* C6: enter at (row, col) replaces lines[row] by its prefix [0, col),
\* inserts the suffix [col, end) as a new line at row + 1, keeps every other
\* line, and leaves the cursor at (row + 1, 0).
C6_EnterSplitsLine ==
    [][lastKey' = "enter" /\ IsLine(fileData, cursorY) =>
          /\ Len(fileData') = Len(fileData) + 1
          /\ fileData'[cursorY + 1] = Slice(fileData[cursorY + 1], 0, cursorX)
          /\ fileData'[cursorY + 2] = SliceFrom(fileData[cursorY + 1], cursorX)
          /\ Others(fileData', cursorY, 2) = Others(fileData, cursorY, 1)
          /\ cursorY' = cursorY + 1
          /\ cursorX' = 0]_vars

\* the string s without its character at column c
WithoutChar(s, c) == Slice(s, 0, c) \o SliceFrom(s, c + 1)

\* C7: backspace at a column > 0 removes exactly the character at column - 1
\* of the cursor's line and moves the cursor column left by one.
C7_BackspaceDeletesChar ==
    [][lastKey' = "backspace" /\ CursorOnLine /\ cursorX > 0 =>
          /\ Len(fileData') = Len(fileData)
          /\ fileData'[cursorY + 1] =
                 WithoutChar(fileData[cursorY + 1], cursorX - 1)
          /\ Others(fileData', cursorY, 1) = Others(fileData, cursorY, 1)
          /\ cursorX' = cursorX - 1
          /\ cursorY' = cursorY]_vars

\* C8: backspace at column 0 of a row > 0 joins the current line onto the
\* previous one and sets the cursor to (row - 1, len(old lines[row - 1])),
\* for every scroll offset.
C8_BackspaceJoinsLines ==
    [][/\ lastKey' = "backspace"
       /\ CursorOnLine /\ cursorX = 0
       /\ cursorY > 0 /\ IsLine(fileData, cursorY - 1)
       => /\ Len(fileData') = Len(fileData) - 1
          /\ fileData'[cursorY] = fileData[cursorY] \o fileData[cursorY + 1]
          /\ Others(fileData', cursorY - 1, 1) = Others(fileData, cursorY - 1, 2)
          /\ cursorY' = cursorY - 1
          /\ cursorX' = Len(fileData[cursorY])]_vars

\* C9: delete before end-of-line removes exactly the character at the cursor;
\* delete at end-of-line of a non-last line appends the next line to the
\* current one and removes it; in both cases the cursor is unchanged.
C9_DeleteCharOrJoin ==
    [][lastKey' = "delete" /\ CursorOnLine =>
          /\ cursorX' = cursorX /\ cursorY' = cursorY
          /\ cursorX < Len(fileData[cursorY + 1]) =>
                /\ Len(fileData') = Len(fileData)
                /\ fileData'[cursorY + 1] =
                       WithoutChar(fileData[cursorY + 1], cursorX)
                /\ Others(fileData', cursorY, 1) = Others(fileData, cursorY, 1)
          /\ (/\ cursorX = Len(fileData[cursorY + 1])
              /\ IsLine(fileData, cursorY + 1)) =>
                /\ Len(fileData') = Len(fileData) - 1
                /\ fileData'[cursorY + 1] =
                       fileData[cursorY + 1] \o fileData[cursorY + 2]
                /\ Others(fileData', cursorY, 1) = Others(fileData, cursorY, 2)
      ]_vars

\* the navigation keys
NavigationKeys == {"up", "down", "left", "right", "home", "end",
                   "pageup", "pagedown"}

\* C10: navigation keys never change the buffer: the line array is the same
\* before and after the key event, in every reachable cursor/scroll state.
C10_NavigationKeepsBuffer ==
    [][lastKey' \in NavigationKeys =>
          fileData' = fileData /\ props' = props]_vars

\* a navigation key has moved the cursor down a buffer of several lines
C10_Witness ==
    /\ lastKey \in NavigationKeys
    /\ Len(fileData) > 1
    /\ cursorY > 0

\* the keys that move the cursor to another row
VerticalKeys == {"up", "down", "pageup", "pagedown"}

\* the step is a vertical move: a page key, or an arrow key that changed
\* the cursor's row
VerticalMove ==
    /\ lastKey' \in VerticalKeys
    /\ lastKey' \in {"up", "down"} => cursorY' # cursorY

\* C11: a vertical move (up, down, pageup, pagedown) that lands on row r'
\* sets the column to min(previous column, len(lines[r'])), so that
\* afterwards 0 <= cursor.column <= len(lines[cursor.row]).
C11_VerticalMoveClampsColumn ==
    [][VerticalMove =>
          /\ IsLine(fileData', cursorY')
          /\ cursorX' = Min(cursorX, Len(fileData'[cursorY' + 1]))
          /\ 0 <= cursorX'
          /\ cursorX' <= Len(fileData'[cursorY' + 1])]_vars

\* C12: a single-step move that would leave the buffer bounds is a no-op on
\* the cursor: left at column 0, right at end-of-line (no wrap to the next
\* line), up on row 0 and down on the last row leave (row, column) unchanged.
C12_MoveAtBoundaryIsNoOp ==
    [][(\/ lastKey' = "left" /\ cursorX = 0
        \/ /\ lastKey' = "right"
           /\ IsLine(fileData, cursorY)
           /\ cursorX = Len(fileData[cursorY + 1])
        \/ lastKey' = "up" /\ cursorY = 0
        \/ lastKey' = "down" /\ cursorY = Len(fileData) - 1)
       => cursorX' = cursorX /\ cursorY' = cursorY]_vars

\* right has been pressed at the end of a line that has a line after it, and
\* the cursor is still there (the column never decreases on right, so the
\* cursor was at column 0 of this empty line before the key)
C12_Witness ==
    /\ lastKey = "right"
    /\ cursorX = 0
    /\ IsLine(fileData, cursorY)
    /\ fileData[cursorY + 1] = << >>
    /\ IsLine(fileData, cursorY + 1)

\* the line s after text is written at column x, in insert or overwrite mode
Written(s, text, x, ins) ==
    Slice(s, 0, x) \o text
        \o (IF ins THEN SliceFrom(s, x) ELSE SliceFrom(s, x + Len(text)))

\* C13: a literal character key (no handler bound to key.full) writes the
\* character into the line the cursor is on, at the cursor's column, in the
\* current insert/overwrite mode, changes no other line and not the line
\* count, and advances the cursor column by one, for every scroll offset.
C13_LiteralWritesAtCursor ==
    [][\A key \in LiteralKeys :
          lastKey' = key.full /\ CursorOnLine =>
              /\ Len(fileData') = Len(fileData)
              /\ fileData'[cursorY + 1] =
                     Written(fileData[cursorY + 1], key.sequence,
                             cursorX, insert)
              /\ Others(fileData', cursorY, 1) = Others(fileData, cursorY, 1)
              /\ cursorX' = cursorX + 1
              /\ cursorY' = cursorY]_vars

\* line r (0-based) of fd, the empty line where fd has none
LineOrEmpty(fd, r) == IF r < Len(fd) THEN fd[r + 1] ELSE << >>

\* the reference for the line written: the old line padded with spaces up to
\* column x, its prefix [0, x), the text, and the rest of the padded line:
\* from x in insert mode, from x + len(text) in overwrite mode
Reference(old, c) ==
    LET padded == old \o [i \in 1..(c.x - Len(old)) |-> " "]
        n      == Len(padded)
    IN  SubSeq(padded, 1, c.x) \o c.text
            \o (IF c.insert THEN SubSeq(padded, c.x + 1, n)
                            ELSE SubSeq(padded, c.x + Len(c.text) + 1, n))

\* C14: writeText(text, x, y, insert) matches the reference: after padding
\* with empty lines up to row y and with spaces up to column x, lines[y]
\* becomes prefix[0,x) ++ text ++ rest, rest being old[x..] in insert mode
\* (length grows by len(text)) and old[x+len(text)..] in overwrite mode
\* (length = max(old length, x+len(text))); no line is truncated or removed
\* and every line other than y keeps its content.
C14_WriteTextMatchesReference ==
    [][written' # NoCall =>
          LET c      == written'
              old    == LineOrEmpty(fileData, c.y)
              padLen == Max(Len(old), c.x)
          IN  /\ Len(fileData') = Max(Len(fileData), c.y + 1)
              /\ fileData'[c.y + 1] = Reference(old, c)
              /\ Len(fileData'[c.y + 1]) =
                     IF c.insert THEN padLen + Len(c.text)
                                 ELSE Max(padLen, c.x + Len(c.text))
              /\ \A r \in 0..(Len(fileData') - 1) :
                     r # c.y => fileData'[r + 1] = LineOrEmpty(fileData, r)
              /\ props' = props]_vars

\* writeText has padded the buffer with lines up to its row and the row with
\* spaces up to its column, and has written a text there
C14_Witness ==
    /\ written # NoCall
    /\ written.y > 0 /\ written.x > 0 /\ written.text # << >>
    /\ Len(fileData) = written.y + 1
    /\ fileData[written.y + 1] =
           [i \in 1..written.x |-> " "] \o written.text

\* the element of an entry has cells
HasCells(e) == e.width > 0 /\ e.height > 0

\* the elements a and b share a cell
Overlap(a, b) ==
    /\ HasCells(a) /\ HasCells(b)
    /\ a.left < b.left + b.width /\ b.left < a.left + a.width
    /\ a.top < b.top + b.height /\ b.top < a.top + a.height

\* the element lies within the terminal, below the menu bar
InTerminal(e) ==
    /\ e.left >= 0 /\ e.left + e.width <= screenWidth
    /\ e.top >= menuBarHeight /\ e.top + e.height <= screenHeight

\* the number of cells of the elements of the entries ws
RECURSIVE Cells(_)
Cells(ws) ==
    IF ws = << >> THEN 0
    ELSE (IF HasCells(Head(ws).element)
          THEN Head(ws).element.width * Head(ws).element.height ELSE 0)
             + Cells(Tail(ws))

\* every pane is anchored on each axis
AxisComplete ==
    \A i \in 1..Len(windows) :
        /\ windows[i].window.anchorTop \/ windows[i].window.anchorBottom
        /\ windows[i].window.anchorLeft \/ windows[i].window.anchorRight

\* C15: for any set of panes with axis-complete anchor configurations and
\* any terminal size, after recalculateLayout the pane rectangles tile the
\* terminal area (the rows below the menu bar): no two pane rectangles
\* overlap and no cell is left uncovered.
C15_LayoutTiles ==
    Len(windows) > 0 /\ AxisComplete =>
        /\ \A i, j \in 1..Len(windows) :
               i # j => ~Overlap(windows[i].element, windows[j].element)
        /\ \A i \in 1..Len(windows) : InTerminal(windows[i].element)
        /\ Cells(windows) = screenWidth * (screenHeight - menuBarHeight)

\* the pane is anchored top, bottom and left, with the fixed width 30
IsLeftColumn(window) ==
    /\ window.anchorTop /\ window.anchorBottom
    /\ window.anchorLeft /\ ~window.anchorRight
    /\ window.width = 30

\* the pane is anchored on all four edges
IsAnchoredAround(window) ==
    /\ window.anchorTop /\ window.anchorBottom
    /\ window.anchorLeft /\ window.anchorRight

\* C16: with two panes, one anchored top+bottom+left with fixed width 30 and
\* the other anchored on all four edges, on a terminal of width 100 the
\* layout gives the latter x = 30 and width = 70, whatever kind of pane each
\* one is.
C16_SecondPaneBesideColumn ==
    Len(windows) = 2 /\ screenWidth = 100 =>
        \A i, j \in 1..2 :
            (/\ i # j
             /\ IsLeftColumn(windows[i].window)
             /\ IsAnchoredAround(windows[j].window))
            => /\ windows[j].element.left = 30
               /\ windows[j].element.width = 70

\* C17: after recalculateLayout, for every terminal size, every pane's width
\* and height are >= 0, every pane's left/top offset is >= 0, and no pane's
\* fixed width/height exceeds the space remaining on the screen.
C17_LayoutClamped ==
    \A i \in 1..Len(windows) :
        LET e == windows[i].element
        IN  /\ e.width >= 0 /\ e.height >= 0
            /\ e.left >= 0 /\ e.top >= 0
            /\ e.left + e.width <= screenWidth
            /\ e.top + e.height <= screenHeight

\* a match is among the accepted matches
Accepted(m) ==
    \E k \in 1..Len(nonOverlappingMatches) : nonOverlappingMatches[k] = m

\* two spans [start, end) have a position in common
Intersect(a, b) == a.start < b.end /\ b.start < a.end

\* C18: for any line and ruleset, the spans accepted by the highlight matcher
\* are pairwise non-overlapping half-open intervals [start, end) with
\* start < end, and in acceptance order they are sorted ascending by start.
C18_AcceptedSpansDisjointSorted ==
    \A i \in 1..Len(nonOverlappingMatches) :
        /\ 0 <= nonOverlappingMatches[i].start
        /\ nonOverlappingMatches[i].start < nonOverlappingMatches[i].end
        /\ nonOverlappingMatches[i].end <= Len(lineArg)
        /\ \A j \in (i + 1)..Len(nonOverlappingMatches) :
               /\ ~Intersect(nonOverlappingMatches[i], nonOverlappingMatches[j])
               /\ nonOverlappingMatches[i].start
                      < nonOverlappingMatches[j].start

\* a line was styled with two spans accepted and a candidate between them
\* rejected
C18_Witness ==
    /\ status = "styled"
    /\ Len(nonOverlappingMatches) >= 2
    /\ \E k \in 1..Len(matches) :
           /\ ~Accepted(matches[k])
           /\ Intersect(matches[k], nonOverlappingMatches[1])
           /\ matches[k].start > nonOverlappingMatches[1].start

\* the line "abcdef" was styled with the rules ("abc", red), ("abcdef", blue),
\* in this order or the other
OverlapExample ==
    /\ status = "styled"
    /\ lineArg = <<"a", "b", "c", "d", "e", "f">>
    /\ patterns \in
           { << <<Literal(<<"a", "b", "c">>), "red">>,
                <<Literal(<<"a", "b", "c", "d", "e", "f">>), "blue">> >>,
             << <<Literal(<<"a", "b", "c", "d", "e", "f">>), "blue">>,
                <<Literal(<<"a", "b", "c">>), "red">> >> }

\* the one span {0, 6, blue}
OneBlueSpan ==
    nonOverlappingMatches =
        << [start |-> 0, end |-> 6,
            text |-> <<"a", "b", "c", "d", "e", "f">>, color |-> "blue"] >>

\* C19 as stated: when two candidate matches start at the same offset, the
\* longer one is accepted and the shorter one is rejected regardless of rule
\* order; the rules ("abc", red), ("abcdef", blue) on the line "abcdef" yield
\* exactly one span {0, 6, blue}.
C19_LongerSameStartAccepted ==
    /\ \A i, j \in 1..Len(matches) :
           (/\ matches[i].start = matches[j].start
            /\ matches[i].end > matches[j].end)
               => Accepted(matches[i]) /\ ~Accepted(matches[j])
    /\ OverlapExample => OneBlueSpan

\* C19, amended: when two candidate matches start at the same offset, the
\* shorter one is rejected regardless of rule order, and the longer one is
\* accepted unless it intersects a span accepted before it (one that starts
\* earlier, or at the same offset and no shorter); the rules ("abc", red),
\* ("abcdef", blue) on the line "abcdef" yield exactly one span {0, 6, blue}.
C19_ShorterSameStartRejected ==
    /\ \A i, j \in 1..Len(matches) :
           (/\ matches[i].start = matches[j].start
            /\ matches[i].end > matches[j].end)
               => /\ ~Accepted(matches[j])
                  /\ \/ Accepted(matches[i])
                     \/ \E k \in 1..Len(nonOverlappingMatches) :
                            /\ Intersect(matches[i], nonOverlappingMatches[k])
                            /\ \/ nonOverlappingMatches[k].start
                                      < matches[i].start
                               \/ /\ nonOverlappingMatches[k].start
                                         = matches[i].start
                                  /\ nonOverlappingMatches[k].end
                                         >= matches[i].end
    /\ OverlapExample => OneBlueSpan

\* the example was styled with the shorter rule first, and the longer match
\* is the one accepted
C19_Witness ==
    /\ OverlapExample
    /\ patterns[1] = <<Literal(<<"a", "b", "c">>), "red">>
    /\ Len(matches) = 2
    /\ matches[1].end = 6 /\ matches[2].end = 3
    /\ Accepted(matches[1]) /\ ~Accepted(matches[2])

\* the pane id is in the collection
InCollection(id) == IndexOf(windows, id) # 0

\* C20: focusWindow(pane) with a pane that is not in the current pane
\* collection (or null) is a no-op: the focus pointer, the pane collection
\* and every pane's border colour are unchanged.
C20_FocusOutsideCollectionIsNoOp ==
    [][(/\ lastOp'.op = "focusWindow"
        /\ lastOp'.arg = Null \/ ~InCollection(lastOp'.arg))
       => currentWindow' = currentWindow /\ windows' = windows]_vars

\* focusWindow has been called with a pane that is not among the two panes
\* of the collection, one of which has the focus
C20_Witness ==
    /\ lastOp.op = "focusWindow"
    /\ lastOp.arg # Null /\ ~InCollection(lastOp.arg)
    /\ Len(windows) = 2
    /\ InCollection(currentWindow)

\* the ids of the panes, in collection order
Ids(ws) == [i \in 1..Len(ws) |-> ws[i].window.id]

\* the service after k calls of next
RECURSIVE nextTimes(_, _)
nextTimes(S, k) == IF k = 0 THEN S ELSE nextTimes(next(S), k - 1)

\* C21: next() moves the focus from the pane at index i to the pane at index
\* (i + 1) mod n and leaves the pane set alone, so n consecutive next() calls
\* visit every pane once and return the focus to the starting pane; with 0 or
\* 1 panes next() changes nothing.
C21_NextCyclesFocus ==
    [][/\ lastOp'.op = "next" =>
              /\ Ids(windows') = Ids(windows)
              /\ Len(windows) <= 1 =>
                     windows' = windows /\ currentWindow' = currentWindow
              /\ (Len(windows) > 1 /\ InCollection(currentWindow)) =>
                     currentWindow' =
                         windows[(IndexOf(windows, currentWindow)
                                      % Len(windows)) + 1].window.id
       /\ InCollection(currentWindow) =>
              /\ {nextTimes(Service, k).currentWindow :
                      k \in 0..(Len(windows) - 1)}
                     = {windows[i].window.id : i \in 1..Len(windows)}
              /\ nextTimes(Service, Len(windows)).currentWindow
                     = currentWindow
      ]_vars

\* next was called with two panes and the focus is on the first one: it came
\* round from the last
C21_Witness ==
    /\ lastOp.op = "next"
    /\ Len(windows) = 2
    /\ currentWindow = windows[1].window.id

\* C22: key events are processed one at a time in arrival order: once no
\* handler is waiting, the buffer and the cursor equal the result of applying
\* the keys sequentially, also when a handler awaited the clipboard read.
C22_KeysAppliedInArrivalOrder ==
    pending = << >> =>
        /\ fileData = sequential.w.fileData
        /\ cursorX = sequential.w.cursorX
        /\ cursorY = sequential.w.cursorY

\* the text holds no line break
NewlineFree(s) == \A i \in 1..Len(s) : s[i] \notin {"CR", "LF"}

\* C27: no line of the buffer ever contains a line feed or a carriage
\* return, whatever keys were pressed: bound keys, unbound keys whose
\* sequence is a carriage return, and pastes.
C27_LinesHoldNoNewline ==
    /\ \A r \in 1..Len(fileData) : NewlineFree(fileData[r])
    /\ \A i \in DOMAIN props : NewlineFree(props[i])

\* the clipboards of more than one line
MultiLineClipboards ==
    { clip \in Clipboards : Len(SplitLines(clip, << >>, << >>)) > 1 }

\* the pane after the payload, of k + 1 lines, went in at the cursor
Pasted(old, new, payload) ==
    LET k      == Len(payload) - 1
        row    == old.cursorY
        col    == old.cursorX
        target == LineOrEmpty(old.fileData, row)
    IN  /\ Len(new.fileData) = Len(old.fileData) + k
        /\ new.fileData[row + 1] = Slice(target, 0, col) \o payload[1]
        /\ \A i \in 1..(k - 1) : new.fileData[row + 1 + i] = payload[i + 1]
        /\ new.fileData[row + 1 + k] = payload[k + 1] \o SliceFrom(target, col)
        /\ \A r \in 1..row : new.fileData[r] = old.fileData[r]
        /\ \A r \in (row + 2)..Len(old.fileData) :
               new.fileData[r + k] = old.fileData[r]
        /\ new.cursorY = row + k
        /\ new.cursorX = Len(payload[k + 1])

\* C28: pasting k + 1 lines (k >= 1) at (row, col) makes line row its old
\* prefix followed by the first payload line, inserts the k - 1 interior
\* lines, ends with the last payload line followed by the old suffix, grows
\* the buffer by exactly k lines and puts the cursor at (row + k, length of
\* the last payload line).
C28_MultiLinePaste ==
    CursorOnLine =>
        \A clip \in MultiLineClipboards :
            \E r \in {press(Win, Bound("C-v"), clip, insert,
                            elementHeight)} :
                Pasted(Win, r.w, SplitLines(clip, << >>, << >>))

\* the width of a pane's border
borderWidth == 1

\* the focused pane's element
FocusedElement == windows[IndexOf(windows, currentWindow)].element

\* the focused pane's cursor row, translated into its element
TranslatedRow == cursorY - scrollOffsetY + borderWidth

NamedKeyStep == lastOp'.op \in {"keypress", "press"} /\ lastKey' # ""

\* C24: a key event sent to a pane that has no file (currentFile null after
\* New File) is rejected before dispatch: no handler runs, no exception
\* escapes press, and cursor and scroll are unchanged.
C24_NoFileKeyRejected ==
    [][NamedKeyStep /\ currentWindow \in noFile =>
          /\ lastOp'.arg = 0
          /\ outcome' = "ok"
          /\ UNCHANGED <<cursorX, cursorY, scrollOffsetX,
                         scrollOffsetY>>]_vars

\* the step is a key event without a name
MalformedKeyStep == lastOp'.op \in {"keypress", "press"} /\ lastKey' = ""

\* C25: a key event that is undefined or has no full name has no effect:
\* EventController.press and the pane's press run no handler and leave the
\* buffer, the cursor, the scroll offsets and the focus unchanged.
C25_MalformedKeyIgnored ==
    [][MalformedKeyStep =>
          /\ lastOp'.arg = 0
          /\ outcome' = "ok"
          /\ UNCHANGED <<fileData, props, cursorX, cursorY, scrollOffsetX,
                         scrollOffsetY, insert, windows, currentWindow,
                         noFile>>]_vars

\* a key without a name has reached the press of a pane that holds text,
\* its cursor away from the origin
C25_Witness ==
    /\ lastOp.op = "press"
    /\ lastKey = ""
    /\ cursorX > 0
    /\ fileData # << << >> >>

\* C23: a failure in one pane's redraw does not keep the other panes from
\* being redrawn: the redraw loop of recalculateLayout attempts the redraw
\* of every pane of the collection, even if the redraw of one of them throws
\* (an edit pane left without a file by New File).
C23_EveryPaneRedrawn == redrawn = Range(PaneIds(windows))

\* C29: while a modal is active no key event changes the pane collection or
\* the focus, and none is forwarded to a pane (whose buffer, cursor and
\* scroll it would change): EventController.press does not forward, and the
\* global shortcuts (explorer toggle, window cycling, close window) do
\* nothing.
C29_ModalBlocksKeys ==
    [][modalActive /\ lastOp'.op = "key" =>
          /\ UNCHANGED <<windows, currentWindow, noFile>>
          /\ forwarded' = Null]_vars

\* C30: close-window never closes the last pane: with one pane it changes
\* nothing, and with n > 1 panes it leaves exactly n - 1, the one removed
\* being the pane that had the focus.
C30_CloseWindowRemovesFocused ==
    [][lastOp'.op = "closeWindow" =>
          IF Len(windows) <= 1
          THEN UNCHANGED <<windows, currentWindow>>
          ELSE /\ Len(windows') = Len(windows) - 1
               /\ Range(PaneIds(windows'))
                      = Range(PaneIds(windows)) \ {currentWindow}]_vars

\* the candidates, in sorted order, that intersect no candidate accepted
\* before them
GreedyAccepted ==
    LET acc[k \in 0..Len(matches)] ==
            IF k = 0 THEN {}
            ELSE IF \E j \in acc[k - 1] : Intersect(matches[j], matches[k])
                 THEN acc[k - 1]
                 ELSE acc[k - 1] \cup {k}
    IN  acc[Len(matches)]

\* the candidates of the set of indexes I, in order
RECURSIVE Chosen(_, _)
Chosen(ms, I) ==
    IF ms = << >> THEN << >>
    ELSE Chosen(SubSeq(ms, 1, Len(ms) - 1), I)
             \o (IF Len(ms) \in I THEN <<ms[Len(ms)]>> ELSE << >>)

\* C32: the accepted span set is maximal: a candidate is accepted exactly
\* when it intersects no span accepted before it in (start ascending, length
\* descending) order, and every rejected candidate intersects at least one
\* accepted span.
C32_AcceptedSetMaximal ==
    status = "styled" =>
        /\ nonOverlappingMatches = Chosen(matches, GreedyAccepted)
        /\ \A k \in 1..Len(matches) :
               /\ k > 1 => compare(matches[k - 1], matches[k]) <= 0
               /\ k \notin GreedyAccepted =>
                      \E i \in 1..Len(nonOverlappingMatches) :
                          Intersect(matches[k], nonOverlappingMatches[i])

\* a line was styled in which two candidates only touch and both were
\* accepted, and another candidate was rejected
C32_Witness ==
    /\ status = "styled"
    /\ Len(matches) > Len(nonOverlappingMatches)
    /\ \E i, j \in 1..Len(nonOverlappingMatches) :
           nonOverlappingMatches[i].end = nonOverlappingMatches[j].start

\* the tags the rendering inserts
Tags == {OpenTag(c) : c \in {"red", "blue", "brightblue"}}
            \cup {CloseTag(c) : c \in {"red", "blue", "brightblue"}}

\* the styled line without the tags
WithoutTags(styled) == SelectSeq(styled, LAMBDA c : c \notin Tags)

\* where the opening tag of the i-th accepted span, by start, is in the
\* styled line (1-based): each span before it brought two tags
TagPosition(i) == nonOverlappingMatches[i].start + 2 * (i - 1) + 1

\* C33: rendering preserves the text: the styled line without the inserted
\* tags is the original line, each tag pair wraps exactly the original
\* characters of its span, and a line with no accepted span, or of a file
\* with no ruleset, is returned as it is.
C33_RenderingPreservesText ==
    status = "styled" =>
        /\ WithoutTags(styledLine) = lineArg
        /\ Len(styledLine) = Len(lineArg) + 2 * Len(nonOverlappingMatches)
        /\ \A i \in 1..Len(nonOverlappingMatches) :
               LET m == nonOverlappingMatches[i]
                   p == TagPosition(i)
               IN  /\ styledLine[p] = OpenTag(m.color)
                   /\ SubSeq(styledLine, p + 1, p + m.end - m.start)
                          = SubSeq(lineArg, m.start + 1, m.end)
                   /\ styledLine[p + m.end - m.start + 1] = CloseTag(m.color)
        /\ nonOverlappingMatches = << >> => styledLine = lineArg
        /\ patterns = << >> => styledLine = lineArg

\* a line was styled with two spans accepted, the first of them after the
\* start of the line
C33_Witness ==
    /\ status = "styled"
    /\ Len(nonOverlappingMatches) >= 2
    /\ nonOverlappingMatches[1].start > 0
    /\ Len(styledLine) > Len(lineArg)

\* C38: style(line, filename) terminates for every line and every ruleset:
\* the match loop of each rule finishes, also for a rule whose pattern can
\* match the empty string, and the call returns.
C38_StyleTerminates == status # "hung"

\* C37: after any sequence of pane operations (panes added, removed, focused,
\* cycled, closed, the file explorer toggled, the AI prompt submitted or
\* escaped, also with the result pane closed or the focus cycled while the
\* request is pending) the focus pointer is a pane of the collection when
\* the collection is not empty, and is null only when it is empty.
C37_FocusInCollection ==
    IF windows = << >>
    THEN currentWindow = Null
    ELSE currentWindow # Null /\ InCollection(currentWindow)

\* C40: after startup the pane collection is never empty: no sequence of
\* close-window commands, file explorer toggles, AI prompt submits or escapes
\* and file opens removes the last pane.
C40_CollectionNeverEmpty == Len(windows) >= 1

\* C34: once the file selection modal has set modalActive, the flag is
\* reset when the modal completes, on cancel, on a file that is read and on
\* a file whose read fails: a flag that is set with the modal no longer
\* shown is eventually reset, so key forwarding resumes.
C34_ModalFlagReset == (modalActive /\ modal # "shown") ~> ~modalActive

\* a file was selected whose read failed, and the flag is reset
C34_Witness ==
    /\ lastOp.op = "readFailed"
    /\ ~modalActive
    /\ modal = "none"


\* the handlers of a list bound to a key, as their positions in the list
BoundTo(evs, full) == {i \in 1..Len(evs) : evs[i].binding = full}

\* the positions of a call list go up
InOrder(s) == \A i, j \in 1..Len(s) : i < j => s[i] < s[j]

C36_InsertTogglesMode ==
    [][(lastOp'.op = "press" /\ lastKey' = "insert" /\ forwarded' # Null)
           => (insert' = ~insert /\ buffers' = buffers)]_vars

\* a is b with some of its elements left out
RECURSIVE IsSubseq(_, _)
IsSubseq(a, b) ==
    IF a = << >> THEN TRUE
    ELSE IF b = << >> THEN FALSE
    ELSE IF a[1] = b[1] THEN IsSubseq(Tail(a), Tail(b))
    ELSE IsSubseq(a, Tail(b))

\* the color lines of the one .nanorc file, and the key of its syntax
ColorLines == Tail(nanorcDir[1])
SyntaxKey == nanorcDir[1][1].pattern

\* the pattern of a color line is a JavaScript expression once rewritten
Convertible(line) ==
    rewritten(line.pattern) # << >> /\ ValidRegExp(rewritten(line.pattern))

\* the rules of the convertible color lines, in the order of the file
ConvertibleRules ==
    LET good == SelectSeq(ColorLines, Convertible)
    IN  [i \in 1..Len(good) |-> <<rewritten(good[i].pattern), good[i].color>>]

\* the rules loaded under the key of the file's syntax
RulesUnder(key) ==
    IF mapHas(loadedRules, key)
    THEN loadedRules[CHOOSE i \in 1..Len(loadedRules) :
                         loadedRules[i].pattern = key].rules
    ELSE << >>

\* the rules of the file hold the convertible ones in order, whatever the
\* other color lines are, and the rules cached for a file are all compiled
RulesKept ==
    /\ (initialized /\ nanorcDir # << >>) =>
           IsSubseq(ConvertibleRules, RulesUnder(SyntaxKey))
    /\ \A f \in DOMAIN cachedPatterns :
           cachedPatterns[f] # << >> =>
               \E i \in 1..Len(loadedRules) :
                   cachedPatterns[f] = loadedRules[i].rules
    /\ patterns # << >> =>
           \E f \in DOMAIN cachedPatterns :
               /\ Len(patterns) = Len(cachedPatterns[f])
               /\ \A i \in 1..Len(patterns) :
                      patterns[i][2] = cachedPatterns[f][i][2]

\* C31: a color line whose pattern cannot be converted or compiled aborts
\* neither the loading nor the matching: the convertible rules of the file
\* are loaded in their order and cached whole for the files of its syntax,
\* and style returns for every line
C31_BadRuleIsolated == RulesKept /\ status # "hung"

\* C39: looking for the rules of a file name returns, without exhausting
\* the call stack, and leaves an entry for the name in the cache: a list
\* of compiled rules or null
C39_ResolutionTerminates ==
    resolution # "idle" =>
        /\ resolution = "returned"
        /\ styledFile \in DOMAIN cachedPatterns
====
